---- MODULE Spec2Model ----
(***************************************************************************)
(* Model of the recursive citation risk engine of Court-Listener-V:        *)
(*   backend/app/services/recursive_citation_analyzer.py                   *)
(*   backend/app/services/citation_quality_analyzer.py  (node cache)       *)
(*   backend/app/services/citation_data_fetcher.py      (graph store)      *)
(*   backend/app/models/citation_quality.py             (tree record)      *)
(*   backend/app/api/v1/citation_quality.py             (HTTP handler)     *)
(*                                                                         *)
(* Floats are modelled as integers: a confidence is in percent, a risk     *)
(* score is an integer 0..100, the overall score is an exact fraction.     *)
(***************************************************************************)
EXTENDS Integers, Sequences, FiniteSets, TLC

(***************************************************************************)
(* Bounds of the model                                                     *)
(***************************************************************************)
\* opinion ids are 1..MaxId
MaxId == 4
\* number of requests served in one behaviour
MaxRuns == 2
\* number of injected failures (database, API, oracle) in one behaviour
MaxFaults == 1
\* largest depth a request asks for that passes validation
MaxReqDepth == 3
\* words of a parenthetical text
MaxWords == 3
\* parentheticals of one opinion
MaxSnippets == 3
\* entries of an all_citations handed to the risk aggregation on its own
MaxCitations == 3

(***************************************************************************)
(* Program constants                                                       *)
(***************************************************************************)
MAX_CITATIONS_PER_LEVEL == 100
HIGH_RISK_THRESHOLD == 60
RE_EVALUATION_THRESHOLD == 70
\* high_risk[:20]
HIGH_RISK_LIMIT == 20
\* analysis_version == 1 ("Current version")
CURRENT_VERSION == 1
\* Query(4, ge=1, le=5) and "1 <= max_depth <= 5"
MIN_DEPTH == 1
MAX_DEPTH == 5
\* characters before and after a keyword that get_context_modifier reads
CONTEXT_WINDOW == 50

Ids == 1..MaxId
\* the two request workers (threads of the web server)
Procs == {"t1", "t2"}
\* roots a request may name: two with citations, one not in search_opinion at first
RootInputs == {1, 2, 4}
\* depths a request may carry: one below the range, the valid ones, one above
DepthInputs == {MIN_DEPTH - 1} \cup (MIN_DEPTH..MaxReqDepth) \cup {MAX_DEPTH + 1}

(***************************************************************************)
(* Sequence helpers                                                        *)
(***************************************************************************)
Range(s) == {s[i] : i \in DOMAIN s}

Min(a, b) == IF a <= b THEN a ELSE b

Max(a, b) == IF a >= b THEN a ELSE b

RECURSIVE SumSeq(_)
SumSeq(s) == IF s = <<>> THEN 0 ELSE Head(s) + SumSeq(Tail(s))

Take(s, n) == SubSeq(s, 1, Min(n, Len(s)))

\* number of entries of a sequence of records whose opinion_id is id
CountId(s, id) == Cardinality({i \in DOMAIN s : s[i].opinion_id = id})

(***************************************************************************)
(* Citation graphs (table search_opinionscited). A citing opinion has each *)
(* cited opinion once (uq_citing_cited); the list is in the order of the   *)
(* query result.                                                           *)
(***************************************************************************)
NoCitations == [i \in Ids |-> <<>>]

\* root 1 citing [2,3], 2 citing [4], 3 citing [4]
Diamond == [NoCitations EXCEPT ![1] = <<2, 3>>, ![2] = <<4>>, ![3] = <<4>>]

\* 1 -> 2 -> 1 is a cycle, 3 cites itself, 1 -> 2 -> 3 -> 4 is a chain
CycleChain == [NoCitations EXCEPT ![1] = <<2>>, ![2] = <<1, 3>>, ![3] = <<3, 4>>]

\* 3 is cited by the root and by 2: reachable at level 1 and at level 2
Relinked == [NoCitations EXCEPT ![1] = <<2, 3>>, ![2] = <<3, 4>>]

Graphs == {Diamond, CycleChain, Relinked}

(***************************************************************************)
(* Quality verdicts: what _parse_ai_response lets through.                 *)
(***************************************************************************)
GoodVerdict ==
    [quality_assessment |-> "GOOD", confidence |-> 90, risk_score |-> 10,
     is_overruled |-> FALSE, is_questioned |-> FALSE, is_criticized |-> FALSE]

OverruledVerdict ==
    [quality_assessment |-> "OVERRULED", confidence |-> 80, risk_score |-> 90,
     is_overruled |-> TRUE, is_questioned |-> FALSE, is_criticized |-> TRUE]

Verdicts == {GoodVerdict, OverruledVerdict}

VARIABLES
    cites,        \* the citation graph: opinion id -> list of cited ids
    opinions,     \* ids with a row in search_opinion
    available,    \* CitationQualityAnalyzer.client is not None
    cache,        \* rows of citation_quality_analysis, in insertion order
    trees,        \* rows of citation_analysis_tree, in insertion order
    t,            \* per worker: the frame of analyze_citation_tree
    runs,         \* requests accepted so far
    faults,       \* failures injected so far
    oracleCalls,  \* history: outcomes of the analyze_citation_quality calls per opinion
    puts,         \* history: the verdicts of the committed saves per opinion
    parentheticals, \* texts handed to the treatment classifier
    classified,   \* results of classify_parenthetical, one per text classified
    summary,      \* result of analyze_opinion_treatment, once it was called
    citations,    \* the all_citations handed to _calculate_overall_risk
    assessment,   \* result of _calculate_overall_risk, once it was called
    written       \* history: the rows committed by _update_tree_record

\* the variables of the treatment classifier
treatment == <<parentheticals, classified, summary>>

\* the variables of the risk aggregation taken alone
risk == <<citations, assessment>>

vars == <<cites, opinions, available, cache, trees, t, runs, faults,
          oracleCalls, puts, treatment, risk, written>>

(***************************************************************************)
(* Node cache: table citation_quality_analysis                             *)
(***************************************************************************)
CacheRow(opinion_id, analysis) ==
    [cited_opinion_id |-> opinion_id, analysis_version |-> CURRENT_VERSION,
     quality_assessment |-> analysis.quality_assessment,
     confidence |-> analysis.confidence,
     risk_score |-> analysis.risk_score,
     is_overruled |-> analysis.is_overruled,
     is_questioned |-> analysis.is_questioned,
     is_criticized |-> analysis.is_criticized]

\* indices of the rows of (opinion id, current version)
CachedRows(rows, opinion_id) ==
    {i \in DOMAIN rows : /\ rows[i].cited_opinion_id = opinion_id
                         /\ rows[i].analysis_version = CURRENT_VERSION}

\* .first() of the query: the index of the row, 0 for None
get_cached_analysis(rows, opinion_id) ==
    IF CachedRows(rows, opinion_id) = {} THEN 0
    ELSE CHOOSE i \in CachedRows(rows, opinion_id) :
             \A j \in CachedRows(rows, opinion_id) : i <= j

\* UniqueConstraint('cited_opinion_id', 'analysis_version'): may row be inserted
unique_citation_quality(rows, row) ==
    \A i \in DOMAIN rows : \/ rows[i].cited_opinion_id # row.cited_opinion_id
                           \/ rows[i].analysis_version # row.analysis_version

\* the verdict part of a row, as the traversal reads it
RowVerdict(row) ==
    [quality_assessment |-> row.quality_assessment, confidence |-> row.confidence,
     risk_score |-> row.risk_score, is_overruled |-> row.is_overruled,
     is_questioned |-> row.is_questioned, is_criticized |-> row.is_criticized]

(***************************************************************************)
(* Tree record: table citation_analysis_tree                               *)
(***************************************************************************)
\* _create_tree_record; analysis_started_at is the position in trees
NewTree(root_opinion_id, max_depth) ==
    [root_opinion_id |-> root_opinion_id, max_depth |-> max_depth,
     current_depth |-> 0, status |-> "in_progress",
     tree_data |-> [root_opinion_id |-> 0, citations_by_depth |-> <<>>],
     total_citations_analyzed |-> 0,
     good_count |-> 0, questionable_count |-> 0, overruled_count |-> 0,
     superseded_count |-> 0, uncertain_count |-> 0,
     overall_risk_score |-> 0, overall_risk_level |-> "null",
     risk_factors |-> <<>>, high_risk_citations |-> <<>>,
     cache_hits |-> 0, cache_misses |-> 0,
     error_message |-> "null", analysis_completed_at |-> 0]

is_complete(tree) ==
    tree.status = "completed" /\ tree.current_depth >= tree.max_depth

can_extend_to_depth_AnyDepth(tree, new_depth) ==
    /\ tree.status = "completed"
    /\ tree.current_depth >= tree.max_depth

can_extend_to_depth(tree, new_depth) ==
    /\ tree.status = "completed"
    /\ new_depth > tree.max_depth
    /\ tree.current_depth >= tree.max_depth

\* rows an incremental update may pick up
ExistingTrees(rows, root_opinion_id, max_depth) ==
    {i \in DOMAIN rows : /\ rows[i].root_opinion_id = root_opinion_id
                         /\ rows[i].max_depth = max_depth
                         /\ rows[i].status \in {"in_progress", "completed"}}

\* order_by(analysis_started_at.desc()).first(): the latest row, 0 for None
get_existing_tree(rows, root_opinion_id, max_depth) ==
    IF ExistingTrees(rows, root_opinion_id, max_depth) = {} THEN 0
    ELSE CHOOSE i \in ExistingTrees(rows, root_opinion_id, max_depth) :
             \A j \in ExistingTrees(rows, root_opinion_id, max_depth) : i >= j

(***************************************************************************)
(* The flat citation record all_citations: a dict, kept in insertion order *)
(***************************************************************************)
CitationData(opinion_id, depth, analysis, from_cache) ==
    [opinion_id |-> opinion_id, depth |-> depth,
     quality_assessment |-> analysis.quality_assessment,
     confidence |-> analysis.confidence,
     risk_score |-> analysis.risk_score,
     is_overruled |-> analysis.is_overruled,
     is_questioned |-> analysis.is_questioned,
     is_criticized |-> analysis.is_criticized,
     from_cache |-> from_cache,
     has_high_risk_children |-> FALSE]

\* all_citations[citation["opinion_id"]] = citation
DictPut(all, citation) ==
    IF \E i \in DOMAIN all : all[i].opinion_id = citation.opinion_id
    THEN [i \in DOMAIN all |->
             IF all[i].opinion_id = citation.opinion_id THEN citation ELSE all[i]]
    ELSE Append(all, citation)

\* "for citation in level_citations: all_citations[...] = citation": a key
\* keeps the place of its first insertion and the value of its last one
DictPutAll(all, level_citations) ==
    LET lc == level_citations
        Last(id) == lc[CHOOSE i \in DOMAIN lc :
                          /\ lc[i].opinion_id = id
                          /\ \A j \in DOMAIN lc : lc[j].opinion_id = id => j <= i]
        InAll(id) == \E i \in DOMAIN all : all[i].opinion_id = id
        InLc(id) == \E i \in DOMAIN lc : lc[i].opinion_id = id
        FirstNew(i) == /\ ~InAll(lc[i].opinion_id)
                       /\ \A j \in 1..(i - 1) : lc[j].opinion_id # lc[i].opinion_id
        new == SelectSeq([i \in DOMAIN lc |-> i], FirstNew)
    IN [i \in DOMAIN all |->
           IF InLc(all[i].opinion_id) THEN Last(all[i].opinion_id) ELSE all[i]]
       \o [k \in DOMAIN new |-> Last(lc[new[k]].opinion_id)]

CountQuality(all, q) ==
    Cardinality({i \in DOMAIN all : all[i].quality_assessment = q})

\* lines 122-127: cache_hits, cache_misses of one level
CountFromCache(level_citations, from_cache) ==
    Cardinality({i \in DOMAIN level_citations :
                    level_citations[i].from_cache = from_cache})

(***************************************************************************)
(* Post-analysis: re-evaluation, overall risk, tree structure, high risk   *)
(***************************************************************************)
high_risk_deep(all) ==
    {i \in DOMAIN all : all[i].depth >= 3 /\ all[i].risk_score >= RE_EVALUATION_THRESHOLD}

\* _re_evaluate_parents: marks the depth <= 2 entries of all_citations
re_evaluate_parents(all) ==
    IF high_risk_deep(all) = {} THEN all
    ELSE [i \in DOMAIN all |->
             IF all[i].depth <= 2
             THEN [all[i] EXCEPT !.has_high_risk_children =
                                     Cardinality(high_risk_deep(all)) > 0]
             ELSE all[i]]

(***************************************************************************)
(* Python floats are IEEE 754 doubles: every operation gives the exact     *)
(* result rounded to 53 significant bits, to nearest, ties to even.  A     *)
(* float is kept as m * 2^e, the natural m as its digits in base LimbBase, *)
(* lowest first, since a TLC integer has 32 bits.  All floats here are     *)
(* non-negative and far from overflow and underflow.                       *)
(***************************************************************************)
LimbBits == 15

LimbBase == 32768

MantissaBits == 53

\* bits a quotient is carried to before it is rounded: a multiple of LimbBits
GuardBits == 75

RECURSIVE Pow2(_)
Pow2(k) == IF k = 0 THEN 1 ELSE 2 * Pow2(k - 1)

RECURSIVE IntBits(_)
IntBits(n) == IF n = 0 THEN 0 ELSE 1 + IntBits(n \div 2)

RECURSIVE BigTrim(_)
BigTrim(a) ==
    IF a # <<>> /\ a[Len(a)] = 0 THEN BigTrim(SubSeq(a, 1, Len(a) - 1)) ELSE a

RECURSIVE BigFromInt(_)
BigFromInt(n) ==
    IF n = 0 THEN <<>> ELSE <<n % LimbBase>> \o BigFromInt(n \div LimbBase)

RECURSIVE BigToInt(_)
BigToInt(a) == IF a = <<>> THEN 0 ELSE Head(a) + LimbBase * BigToInt(Tail(a))

Limb(a, i) == IF i <= Len(a) THEN a[i] ELSE 0

RECURSIVE BigAddFrom(_, _, _, _)
BigAddFrom(a, b, i, carry) ==
    IF i > Len(a) /\ i > Len(b)
    THEN BigFromInt(carry)
    ELSE LET x == Limb(a, i) + Limb(b, i) + carry
         IN <<x % LimbBase>> \o BigAddFrom(a, b, i + 1, x \div LimbBase)

BigAdd(a, b) == BigAddFrom(a, b, 1, 0)

RECURSIVE BigMulSmallFrom(_, _, _, _)
BigMulSmallFrom(a, k, i, carry) ==
    IF i > Len(a)
    THEN BigFromInt(carry)
    ELSE LET x == a[i] * k + carry
         IN <<x % LimbBase>> \o BigMulSmallFrom(a, k, i + 1, x \div LimbBase)

\* a * k for 0 <= k < LimbBase
BigMulSmall(a, k) == IF k = 0 THEN <<>> ELSE BigMulSmallFrom(a, k, 1, 0)

RECURSIVE BigMul(_, _)
BigMul(a, b) ==
    IF a = <<>> \/ b = <<>> THEN <<>>
    ELSE BigAdd(BigMulSmall(a, Head(b)),
                IF Tail(b) = <<>> THEN <<>> ELSE <<0>> \o BigMul(a, Tail(b)))

\* quotient (not trimmed) and remainder of a by d, for 0 < d < LimbBase
RECURSIVE BigDivRem(_, _)
BigDivRem(a, d) ==
    IF a = <<>> THEN [q |-> <<>>, r |-> 0]
    ELSE LET high == BigDivRem(Tail(a), d)
             cur == high.r * LimbBase + Head(a)
         IN [q |-> <<cur \div d>> \o high.q, r |-> cur % d]

\* -1, 0, 1 as a is below, equal to, above b
RECURSIVE BigCmpAt(_, _, _)
BigCmpAt(a, b, i) ==
    IF i = 0 THEN 0
    ELSE IF a[i] < b[i] THEN 0 - 1
    ELSE IF a[i] > b[i] THEN 1
    ELSE BigCmpAt(a, b, i - 1)

BigCmp(a, b) ==
    IF Len(a) < Len(b) THEN 0 - 1
    ELSE IF Len(a) > Len(b) THEN 1
    ELSE BigCmpAt(a, b, Len(a))

BigBits(a) ==
    IF a = <<>> THEN 0 ELSE LimbBits * (Len(a) - 1) + IntBits(a[Len(a)])

\* a * 2^s
BigShl(a, s) ==
    IF a = <<>> THEN <<>>
    ELSE [i \in 1..(s \div LimbBits) |-> 0] \o BigMulSmall(a, Pow2(s % LimbBits))

\* a \div 2^s
BigShr(a, s) ==
    IF s \div LimbBits >= Len(a) THEN <<>>
    ELSE BigTrim(BigDivRem(SubSeq(a, s \div LimbBits + 1, Len(a)),
                           Pow2(s % LimbBits)).q)

\* bit i of a, bit 0 the lowest
BigBit(a, i) == (Limb(a, i \div LimbBits + 1) \div Pow2(i % LimbBits)) % 2

\* a % 2^s # 0
BigLowBits(a, s) ==
    \/ \E i \in 1..Min(Len(a), s \div LimbBits) : a[i] # 0
    \/ Limb(a, s \div LimbBits + 1) % Pow2(s % LimbBits) # 0

\* (p + rest) / 2^s rounded to nearest, ties to even, where 0 <= rest < 1 and
\* sticky tells that rest > 0
RoundHalfEven(p, s, sticky) ==
    IF s = 0 THEN p
    ELSE LET q == BigShr(p, s)
             half == BigBit(p, s - 1) = 1
             below == sticky \/ BigLowBits(p, s - 1)
             odd == Limb(q, 1) % 2 = 1
         IN IF half /\ (below \/ odd) THEN BigAdd(q, <<1>>) ELSE q

\* the double nearest to (p + rest) * 2^e
Float(p, e, sticky) ==
    [m |-> RoundHalfEven(p, Max(BigBits(p) - MantissaBits, 0), sticky),
     e |-> e + Max(BigBits(p) - MantissaBits, 0)]

FloatOfInt(n) == [m |-> BigFromInt(n), e |-> 0]

\* x / d for an integer 0 < d < LimbBase
FloatDivInt(x, d) ==
    IF x.m = <<>> THEN x
    ELSE Float(BigTrim(BigDivRem(BigShl(x.m, GuardBits), d).q), x.e - GuardBits,
               BigDivRem(BigShl(x.m, GuardBits), d).r # 0)

FloatMul(x, y) == Float(BigMul(x.m, y.m), x.e + y.e, FALSE)

FloatAdd(x, y) ==
    IF x.m = <<>> THEN y
    ELSE IF y.m = <<>> THEN x
    ELSE Float(BigAdd(BigShl(x.m, x.e - Min(x.e, y.e)),
                      BigShl(y.m, y.e - Min(x.e, y.e))),
               Min(x.e, y.e), FALSE)

\* x >= n for a natural n
FloatGE(x, n) ==
    BigCmp(BigShl(x.m, x.e - Min(x.e, 0)),
           BigShl(BigFromInt(n), 0 - Min(x.e, 0))) >= 0

\* round(x, 2), in hundredths: the hundredth nearest to x, ties to even
FloatRound2(x) ==
    IF x.e >= 0 THEN BigToInt(BigShl(BigMulSmall(x.m, 100), x.e))
    ELSE BigToInt(RoundHalfEven(BigMulSmall(x.m, 100), 0 - x.e, FALSE))

\* the literals 0.5, 0.3 and 0.2
Half == FloatDivInt(FloatOfInt(1), 2)

ThreeTenths == FloatDivInt(FloatOfInt(3), 10)

TwoTenths == FloatDivInt(FloatOfInt(2), 10)

negative_count(all) == CountQuality(all, "OVERRULED") + CountQuality(all, "SUPERSEDED")

questionable_count(all) == CountQuality(all, "QUESTIONABLE")

\* (count / total) * 100
Percent(count, total) ==
    FloatMul(FloatDivInt(FloatOfInt(count), total), FloatOfInt(100))

\* the bignum 2^k - 1
BigOnes(k) ==
    BigTrim([i \in 1..(k \div LimbBits + 1) |->
                IF i <= k \div LimbBits THEN LimbBase - 1 ELSE Pow2(k % LimbBits) - 1])

\* citation["risk_score"] is an int or a float. A score that is not an integer
\* is held in two fields: risk_score n >= 1 with risk_frac j > 0 is the double
\* n - 2^-j (j small enough for n * 2^j to have at most MantissaBits bits); a
\* citation without the field risk_frac has the integer risk_score
RiskFrac(citation) ==
    IF "risk_frac" \in DOMAIN citation THEN citation.risk_frac ELSE 0

RiskValue(citation) ==
    IF RiskFrac(citation) = 0 THEN FloatOfInt(citation.risk_score)
    ELSE [m |-> BigAdd(BigShl(BigFromInt(citation.risk_score - 1), RiskFrac(citation)),
                       BigOnes(RiskFrac(citation))),
          e |-> 0 - RiskFrac(citation)]

\* cit["risk_score"] >= n for an integer n
RiskAtLeast(citation, n) ==
    citation.risk_score - (IF RiskFrac(citation) > 0 THEN 1 ELSE 0) >= n

\* a sum that gives every depth the weight 1
WeightedRisk_Unweighted(citation) == RiskValue(citation)

\* weight * risk_score of a citation, weight = 1.0 / max(depth, 1)
WeightedRisk(citation) ==
    FloatMul(FloatDivInt(FloatOfInt(1), Max(citation.depth, 1)), RiskValue(citation))

\* partial, then the entries lo..hi added to it one by one
RECURSIVE SumOnto(_, _, _, _)
SumOnto(all, partial, lo, hi) ==
    IF hi < lo THEN partial
    ELSE FloatAdd(SumOnto(all, partial, lo, hi - 1), WeightedRisk(all[hi]))

\* sum(weight * risk_score) over the first n entries, added left to right; the
\* sum is built in runs of SumRun entries
SumRun == 10

RECURSIVE DepthWeightedSum(_, _)
DepthWeightedSum(all, n) ==
    IF n = 0 THEN FloatOfInt(0)
    ELSE LET lo == ((n - 1) \div SumRun) * SumRun + 1
             partial == DepthWeightedSum(all, lo - 1)
         IN IF partial.m = <<>> THEN SumOnto(all, FloatOfInt(0), lo, n)
            ELSE SumOnto(all, partial, lo, n)

\* negative_pct * 0.5 + questionable_pct * 0.3 + depth_weighted_risk * 0.2
CombinedRisk(all) ==
    FloatAdd(FloatAdd(FloatMul(Percent(negative_count(all), Len(all)), Half),
                      FloatMul(Percent(questionable_count(all), Len(all)),
                               ThreeTenths)),
             FloatMul(FloatDivInt(DepthWeightedSum(all, Len(all)), Len(all)),
                      TwoTenths))

\* the assessment made of risk_score = min(.., 100)
RiskAssessment(all, risk_score) ==
    LET depth1_issues == {i \in DOMAIN all :
                             /\ all[i].depth = 1
                             /\ RiskAtLeast(all[i], HIGH_RISK_THRESHOLD)}
    IN [score |-> FloatRound2(risk_score),
        level |-> IF FloatGE(risk_score, 70) THEN "HIGH"
                  ELSE IF FloatGE(risk_score, 40) THEN "MEDIUM" ELSE "LOW",
        factors |->
            (IF negative_count(all) > 0
             THEN <<[factor |-> "overruled/superseded cases",
                     count |-> negative_count(all)]>> ELSE <<>>)
            \o (IF questionable_count(all) > 0
                THEN <<[factor |-> "questionable cases",
                        count |-> questionable_count(all)]>> ELSE <<>>)
            \o (IF depth1_issues # {}
                THEN <<[factor |-> "high-risk citations at depth 1",
                        count |-> Cardinality(depth1_issues)]>> ELSE <<>>)]

FloatMin(x, n) == IF FloatGE(x, n) THEN FloatOfInt(n) ELSE x

calculate_overall_risk(all) ==
    IF all = <<>>
    THEN [score |-> 0, level |-> "LOW", factors |-> <<>>]
    ELSE RiskAssessment(all, FloatMin(CombinedRisk(all), 100))

TreeEntry(citation) ==
    [opinion_id |-> citation.opinion_id,
     quality_assessment |-> citation.quality_assessment,
     risk_score |-> citation.risk_score]

MapTreeEntry(s) == [i \in DOMAIN s |-> TreeEntry(s[i])]

\* _build_tree_structure: citations_by_depth
build_tree_structure(root_opinion_id, all) ==
    [root_opinion_id |-> root_opinion_id,
     citations_by_depth |->
         [d \in {all[i].depth : i \in DOMAIN all} |->
             LET AtDepth(c) == c.depth = d IN MapTreeEntry(SelectSeq(all, AtDepth))]]

HighRiskEntry(citation) ==
    [opinion_id |-> citation.opinion_id, depth |-> citation.depth,
     quality_assessment |-> citation.quality_assessment,
     risk_score |-> citation.risk_score]

\* list.sort(key=risk_score, reverse=True): stable, equal scores keep their order
RECURSIVE InsertByRisk(_, _)
InsertByRisk(sorted, x) ==
    IF sorted = <<>> THEN <<x>>
    ELSE IF Head(sorted).risk_score >= x.risk_score
         THEN <<Head(sorted)>> \o InsertByRisk(Tail(sorted), x)
         ELSE <<x>> \o sorted

RECURSIVE SortByRisk(_, _)
SortByRisk(sorted, rest) ==
    IF rest = <<>> THEN sorted
    ELSE SortByRisk(InsertByRisk(sorted, Head(rest)), Tail(rest))

MapHighRiskEntry(s) == [i \in DOMAIN s |-> HighRiskEntry(s[i])]

\* an extraction that cuts the list without sorting it
extract_high_risk_citations_Unsorted(all) ==
    LET IsHighRisk(c) == c.risk_score >= HIGH_RISK_THRESHOLD
    IN Take(MapHighRiskEntry(SelectSeq(all, IsHighRisk)), HIGH_RISK_LIMIT)

extract_high_risk_citations(all) ==
    LET IsHighRisk(c) == c.risk_score >= HIGH_RISK_THRESHOLD
    IN Take(SortByRisk(<<>>, MapHighRiskEntry(SelectSeq(all, IsHighRisk))),
            HIGH_RISK_LIMIT)

\* _update_tree_record: the row after the commit
\* the rows of any status of the root, of the depth when one is given (0: None)
CompletedTrees_AnyStatus(rows, opinion_id, depth) ==
    {i \in DOMAIN rows : /\ rows[i].root_opinion_id = opinion_id
                         /\ depth # 0 => rows[i].max_depth = depth}

\* get_citation_tree: the completed rows of the root, of the depth when one is
\* given (0: None)
CompletedTrees(rows, opinion_id, depth) ==
    {i \in DOMAIN rows : /\ rows[i].root_opinion_id = opinion_id
                         /\ rows[i].status = "completed"
                         /\ depth # 0 => rows[i].max_depth = depth}

\* order_by(analysis_completed_at.desc()).first(): the row completed last, 0 for None
get_citation_tree(rows, opinion_id, depth) ==
    IF CompletedTrees(rows, opinion_id, depth) = {} THEN 0
    ELSE CHOOSE i \in CompletedTrees(rows, opinion_id, depth) :
             \A j \in CompletedTrees(rows, opinion_id, depth) :
                 \/ rows[j].analysis_completed_at < rows[i].analysis_completed_at
                 \/ /\ rows[j].analysis_completed_at = rows[i].analysis_completed_at
                    /\ j <= i

\* datetime.now(): later than every analysis_completed_at stored
Now(rows) ==
    IF rows = <<>> THEN 1
    ELSE 1 + (CHOOSE n \in {rows[i].analysis_completed_at : i \in DOMAIN rows} :
                  \A i \in DOMAIN rows : rows[i].analysis_completed_at <= n)

update_tree_record(tree, current_depth, all, risk_assessment, tree_data, high_risk_citations, cache_hits, cache_misses, now) ==
    [tree EXCEPT
        !.current_depth = current_depth,
        !.total_citations_analyzed = Len(all),
        !.good_count = CountQuality(all, "GOOD"),
        !.questionable_count = CountQuality(all, "QUESTIONABLE"),
        !.overruled_count = CountQuality(all, "OVERRULED"),
        !.superseded_count = CountQuality(all, "SUPERSEDED"),
        !.uncertain_count = CountQuality(all, "UNCERTAIN"),
        !.overall_risk_score = risk_assessment.score,
        !.overall_risk_level = risk_assessment.level,
        !.risk_factors = risk_assessment.factors,
        !.tree_data = tree_data,
        !.high_risk_citations = high_risk_citations,
        !.cache_hits = cache_hits,
        !.cache_misses = cache_misses,
        !.status = "completed",
        !.analysis_completed_at = now]

(***************************************************************************)
(* Treatment classifier (treatment_classifier.py). A text is the sequence  *)
(* of its words, which one blank separates; a character position is the    *)
(* offset of a word in that string.                                        *)
(***************************************************************************)
\* keyword dictionaries, in the order of the source: words of the keyword, score
NEGATIVE_KEYWORDS ==
    <<[words |-> <<"overruled">>, score |-> 10],
      [words |-> <<"overruling">>, score |-> 10],
      [words |-> <<"overrule">>, score |-> 10],
      [words |-> <<"abrogated">>, score |-> 10],
      [words |-> <<"abrogating">>, score |-> 10],
      [words |-> <<"reversed">>, score |-> 9],
      [words |-> <<"reversing">>, score |-> 9],
      [words |-> <<"vacated">>, score |-> 9],
      [words |-> <<"vacating">>, score |-> 9],
      [words |-> <<"superseded">>, score |-> 9],
      [words |-> <<"disapproved">>, score |-> 8],
      [words |-> <<"disapproving">>, score |-> 8],
      [words |-> <<"rejected">>, score |-> 7],
      [words |-> <<"rejecting">>, score |-> 7],
      [words |-> <<"questioned">>, score |-> 6],
      [words |-> <<"questioning">>, score |-> 6],
      [words |-> <<"doubted">>, score |-> 6],
      [words |-> <<"criticized">>, score |-> 5],
      [words |-> <<"criticizing">>, score |-> 5],
      [words |-> <<"limited">>, score |-> 4],
      [words |-> <<"limiting">>, score |-> 4],
      [words |-> <<"narrowed">>, score |-> 4],
      [words |-> <<"narrowing">>, score |-> 4]>>

POSITIVE_KEYWORDS ==
    <<[words |-> <<"affirmed">>, score |-> 8],
      [words |-> <<"affirming">>, score |-> 8],
      [words |-> <<"followed">>, score |-> 7],
      [words |-> <<"following">>, score |-> 7],
      [words |-> <<"adopted">>, score |-> 7],
      [words |-> <<"adopting">>, score |-> 7],
      [words |-> <<"approved">>, score |-> 6],
      [words |-> <<"approving">>, score |-> 6],
      [words |-> <<"applied">>, score |-> 5],
      [words |-> <<"applying">>, score |-> 5],
      [words |-> <<"cited", "with", "approval">>, score |-> 8],
      [words |-> <<"endorsed">>, score |-> 6],
      [words |-> <<"endorsing">>, score |-> 6],
      [words |-> <<"agreed">>, score |-> 5],
      [words |-> <<"agreeing">>, score |-> 5]>>

NEUTRAL_KEYWORDS ==
    <<[words |-> <<"distinguished">>, score |-> 5],
      [words |-> <<"distinguishing">>, score |-> 5],
      [words |-> <<"explained">>, score |-> 3],
      [words |-> <<"explaining">>, score |-> 3],
      [words |-> <<"discussed">>, score |-> 2],
      [words |-> <<"discussing">>, score |-> 2],
      [words |-> <<"cited">>, score |-> 1],
      [words |-> <<"citing">>, score |-> 1],
      [words |-> <<"mentioned">>, score |-> 1],
      [words |-> <<"mentioning">>, score |-> 1],
      [words |-> <<"referenced">>, score |-> 1],
      [words |-> <<"referencing">>, score |-> 1]>>

\* the regular expressions as their words, separated by \s+; lazy: ".*?" stands
\* between the first and the last word
NEGATION_PATTERNS ==
    <<[words |-> <<"declined", "to", "follow">>, lazy |-> FALSE, score |-> 8],
      [words |-> <<"refused", "to", "follow">>, lazy |-> FALSE, score |-> 8],
      [words |-> <<"declined", "to", "adopt">>, lazy |-> FALSE, score |-> 8],
      [words |-> <<"refused", "to", "adopt">>, lazy |-> FALSE, score |-> 8],
      [words |-> <<"declined", "to", "apply">>, lazy |-> FALSE, score |-> 7],
      [words |-> <<"refused", "to", "apply">>, lazy |-> FALSE, score |-> 7],
      [words |-> <<"not", "followed">>, lazy |-> FALSE, score |-> 6],
      [words |-> <<"no", "longer", "followed">>, lazy |-> FALSE, score |-> 9],
      [words |-> <<"expressly", "rejected">>, lazy |-> FALSE, score |-> 9],
      [words |-> <<"declined", "to", "extend">>, lazy |-> FALSE, score |-> 5],
      [words |-> <<"refused", "to", "extend">>, lazy |-> FALSE, score |-> 5],
      [words |-> <<"distinguished", "and", "rejected">>, lazy |-> FALSE, score |-> 7],
      [words |-> <<"distinguished", "declined">>, lazy |-> TRUE, score |-> 6]>>

\* multipliers in tenths, in the order of the source
CONTEXT_MODIFIERS ==
    <<[word |-> "expressly", mult |-> 13],
      [word |-> "explicitly", mult |-> 13],
      [word |-> "clearly", mult |-> 12],
      [word |-> "unequivocally", mult |-> 14],
      [word |-> "categorically", mult |-> 14],
      [word |-> "firmly", mult |-> 12],
      [word |-> "strongly", mult |-> 12],
      [word |-> "completely", mult |-> 13],
      [word |-> "implicitly", mult |-> 8],
      [word |-> "arguably", mult |-> 7],
      [word |-> "possibly", mult |-> 6],
      [word |-> "potentially", mult |-> 7],
      [word |-> "might", mult |-> 6],
      [word |-> "could", mult |-> 7],
      [word |-> "seems", mult |-> 7],
      [word |-> "appears", mult |-> 8]>>

\* the pairs <<word, stem>> with "stem in word", for the stems tested by
\* _map_keyword_to_treatment_type and the words of the tables above
ContainsStem ==
    {<<"abrogated", "abrogat">>, <<"abrogating", "abrogat">>, <<"adopt", "adopt">>,
     <<"adopted", "adopt">>, <<"adopting", "adopt">>, <<"affirmed", "affirm">>,
     <<"affirming", "affirm">>, <<"approval", "approv">>, <<"approved", "approv">>,
     <<"approving", "approv">>, <<"criticized", "criticiz">>, <<"criticizing", "criticiz">>,
     <<"disapproved", "disapprov">>, <<"disapproved", "approv">>, <<"disapproving", "disapprov">>,
     <<"disapproving", "approv">>, <<"distinguished", "distinguish">>, <<"distinguishing", "distinguish">>,
     <<"doubted", "doubt">>, <<"endorsed", "endors">>, <<"endorsing", "endors">>,
     <<"follow", "follow">>, <<"followed", "follow">>, <<"following", "follow">>,
     <<"overrule", "overrul">>, <<"overruled", "overrul">>, <<"overruling", "overrul">>,
     <<"questioned", "question">>, <<"questioning", "question">>, <<"rejected", "reject">>,
     <<"rejecting", "reject">>, <<"reversed", "revers">>, <<"reversing", "revers">>,
     <<"superseded", "supersed">>, <<"vacated", "vacat">>, <<"vacating", "vacat">>}

\* the pairs <<word, prefix>>: a pattern does not end with \b, so its last word
\* also matches the start of a longer word
ProperPrefix ==
    {<<"adopted", "adopt">>, <<"adopting", "adopt">>, <<"applying", "apply">>, <<"followed", "follow">>, <<"following", "follow">>}

\* words a parenthetical is made of: keywords of the three dictionaries, the
\* words of negation phrases, an intensifier and three weakeners, a word with a capital
\* and a name. None of them ends with the first word of a negation pattern
\* or contains a context modifier without being that word.
Vocabulary ==
    {"overruled", "rejected", "limited", "followed", "applied", "distinguished",
     "cited", "declined", "to", "follow", "not", "expressly", "possibly",
     "Followed", "smith", "questioned", "arguably", "implicitly"}

\* str.lower() on the words of Vocabulary
Lower(word) == IF word = "Followed" THEN "followed" ELSE word

\* normalize_text: text.lower().strip()
normalize_text(text) == [i \in DOMAIN text |-> Lower(text[i])]

\* position of the first character of word i
Offset(text, i) == SumSeq([j \in 1..(i - 1) |-> Len(text[j]) + 1])

\* len(text)
TextLen(text) ==
    IF text = <<>> THEN 0 ELSE Offset(text, Len(text)) + Len(text[Len(text)])

StartsWith(word, prefix) == word = prefix \/ <<word, prefix>> \in ProperPrefix

RECURSIVE Flatten(_)
Flatten(ss) == IF ss = <<>> THEN <<>> ELSE Head(ss) \o Flatten(Tail(ss))

\* re.match of a negation pattern at word i: the word the match ends in, 0 if
\* there is no match
MatchEnd(text, pat, i) ==
    LET n == Len(pat.words)
        IsEnd(j) == StartsWith(text[j], pat.words[n])
    IN IF pat.lazy
       THEN IF text[i] = pat.words[1] /\ \E j \in (i + 2)..Len(text) : IsEnd(j)
            THEN CHOOSE j \in (i + 2)..Len(text) :
                     IsEnd(j) /\ \A k \in (i + 2)..(j - 1) : ~IsEnd(k)
            ELSE 0
       ELSE IF /\ i + n - 1 <= Len(text)
               /\ \A k \in 1..(n - 1) : text[i + k - 1] = pat.words[k]
               /\ IsEnd(i + n - 1)
            THEN i + n - 1
            ELSE 0

\* re.finditer(pattern, normalized) from word i on: the matches from left to
\* right, none overlapping the one before
RECURSIVE finditer(_, _, _)
finditer(text, pat, i) ==
    IF i > Len(text) THEN <<>>
    ELSE IF MatchEnd(text, pat, i) # 0
         THEN <<[first |-> i, last |-> MatchEnd(text, pat, i)]>>
              \o finditer(text, pat, MatchEnd(text, pat, i) + 1)
         ELSE finditer(text, pat, i + 1)

\* match.start() and match.end() of a match of a negation pattern
MatchStart(text, m) == Offset(text, m.first)

MatchStop(text, pat, m) == Offset(text, m.last) + Len(pat.words[Len(pat.words)])

\* match.group(0), as words
MatchGroup(text, pat, m) ==
    SubSeq(text, m.first, m.last - 1) \o <<pat.words[Len(pat.words)]>>

\* a find_treatment_signals that does not record the positions of its negation matches
negated_positions_None(text) == {}

\* negated_positions after the first loop of find_treatment_signals
negated_positions(text) ==
    UNION {UNION {MatchStart(text, finditer(text, NEGATION_PATTERNS[p], 1)[k])
                  ..(MatchStop(text, NEGATION_PATTERNS[p],
                               finditer(text, NEGATION_PATTERNS[p], 1)[k]) - 1) :
                  k \in DOMAIN finditer(text, NEGATION_PATTERNS[p], 1)} :
           p \in DOMAIN NEGATION_PATTERNS}

\* "word in context" for the window of get_context_modifier
InContext(text, word, position) ==
    LET start == Max(0, position - CONTEXT_WINDOW)
        end == Min(TextLen(text), position + CONTEXT_WINDOW)
    IN \E j \in DOMAIN text :
           /\ text[j] = word
           /\ Offset(text, j) >= start
           /\ Offset(text, j) + Len(word) <= end

\* the loop of get_context_modifier over CONTEXT_MODIFIERS[i..], in tenths
RECURSIVE ModifierLoop(_, _, _, _)
ModifierLoop(text, position, i, modifier) ==
    IF i > Len(CONTEXT_MODIFIERS) THEN modifier
    ELSE LET mult == CONTEXT_MODIFIERS[i].mult
         IN ModifierLoop(text, position, i + 1,
                IF InContext(text, CONTEXT_MODIFIERS[i].word, position)
                THEN IF mult > 10 THEN Max(modifier, mult) ELSE Min(modifier, mult)
                ELSE modifier)

get_context_modifier_None(text, position) == 10

get_context_modifier(text, position) == ModifierLoop(text, position, 1, 10)

\* int(score * modifier)
AdjustedScore(score, modifier) == (score * modifier) \div 10

TreatmentSignal(keyword, score, severity, position) ==
    [keyword |-> keyword, score |-> score, severity |-> severity, position |-> position]

\* first loop of find_treatment_signals: the negation patterns
NegationSignals(text) ==
    Flatten([p \in DOMAIN NEGATION_PATTERNS |->
        LET pat == NEGATION_PATTERNS[p]
            matches == finditer(text, pat, 1)
        IN [k \in DOMAIN matches |->
               TreatmentSignal(MatchGroup(text, pat, matches[k]),
                               AdjustedScore(pat.score,
                                   get_context_modifier(text, MatchStart(text, matches[k]))),
                               "NEGATIVE", MatchStart(text, matches[k]))]])

\* \b keyword \b matches at word i
KeywordAt(text, words, i) ==
    /\ i + Len(words) - 1 <= Len(text)
    /\ \A k \in DOMAIN words : text[i + k - 1] = words[k]

\* one of the three keyword loops of find_treatment_signals
KeywordSignals(text, keywords, severity) ==
    Flatten([e \in DOMAIN keywords |->
        LET Found(i) == /\ KeywordAt(text, keywords[e].words, i)
                        /\ Offset(text, i) \notin negated_positions(text)
            at == SelectSeq([i \in DOMAIN text |-> i], Found)
        IN [k \in DOMAIN at |->
               TreatmentSignal(keywords[e].words,
                               AdjustedScore(keywords[e].score,
                                   get_context_modifier(text, Offset(text, at[k]))),
                               severity, Offset(text, at[k]))]])

find_treatment_signals(text) ==
    LET normalized == normalize_text(text)
    IN NegationSignals(normalized)
       \o KeywordSignals(normalized, NEGATIVE_KEYWORDS, "NEGATIVE")
       \o KeywordSignals(normalized, POSITIVE_KEYWORDS, "POSITIVE")
       \o KeywordSignals(normalized, NEUTRAL_KEYWORDS, "NEUTRAL")

\* "stem in keyword"
HasStem(keyword, stem) == \E i \in DOMAIN keyword : <<keyword[i], stem>> \in ContainsStem

map_keyword_to_treatment_type(keyword, severity) ==
    IF HasStem(keyword, "overrul") THEN "OVERRULED"
    ELSE IF HasStem(keyword, "revers") THEN "REVERSED"
    ELSE IF HasStem(keyword, "vacat") THEN "VACATED"
    ELSE IF HasStem(keyword, "abrogat") THEN "ABROGATED"
    ELSE IF HasStem(keyword, "supersed") THEN "SUPERSEDED"
    ELSE IF HasStem(keyword, "question") \/ HasStem(keyword, "doubt") THEN "QUESTIONED"
    ELSE IF \/ HasStem(keyword, "criticiz") \/ HasStem(keyword, "disapprov")
            \/ HasStem(keyword, "reject") THEN "CRITICIZED"
    ELSE IF HasStem(keyword, "affirm") THEN "AFFIRMED"
    ELSE IF \/ HasStem(keyword, "follow") \/ HasStem(keyword, "adopt")
            \/ HasStem(keyword, "approv") \/ HasStem(keyword, "endors") THEN "FOLLOWED"
    ELSE IF HasStem(keyword, "distinguish") THEN "DISTINGUISHED"
    ELSE IF severity = "NEGATIVE" THEN "CRITICIZED"
    ELSE IF severity = "POSITIVE" THEN "FOLLOWED"
    ELSE "CITED"

\* sum(s.score for s in signals if s.severity == severity)
SeverityScore(signals, severity) ==
    LET Is(s) == s.severity = severity
    IN SumSeq([i \in DOMAIN SelectSeq(signals, Is) |-> SelectSeq(signals, Is)[i].score])

\* max(signals, key=score): the first of the signals with the highest score
Strongest(signals) ==
    signals[CHOOSE i \in DOMAIN signals :
                /\ \A j \in DOMAIN signals : signals[j].score <= signals[i].score
                /\ \A j \in 1..(i - 1) : signals[j].score < signals[i].score]

\* a classify_parenthetical whose confidence counts the signals of every severity
ClassifySignals_CountsAll(signals, text) ==
    LET negative_score == SeverityScore(signals, "NEGATIVE")
        positive_score == SeverityScore(signals, "POSITIVE")
        neutral_score == SeverityScore(signals, "NEUTRAL")
        severity == IF negative_score > positive_score /\ negative_score > neutral_score
                    THEN "NEGATIVE"
                    ELSE IF positive_score > negative_score /\ positive_score > neutral_score
                    THEN "POSITIVE"
                    ELSE "NEUTRAL"
        max_score == SeverityScore(signals, severity)
    IN IF signals = <<>>
       THEN [treatment_type |-> "CITED", severity |-> "NEUTRAL", confidence |-> 30,
             signals |-> <<>>, text |-> text]
       ELSE [treatment_type |->
                 map_keyword_to_treatment_type(Strongest(signals).keyword, severity),
             severity |-> severity,
             confidence |-> Min(100, max_score * (10 + Len(signals))),
             signals |-> signals,
             text |-> text]

\* classify_parenthetical from line 280 on, given the signals of the text;
\* confidence in hundredths
ClassifySignals(signals, text) ==
    LET negative_score == SeverityScore(signals, "NEGATIVE")
        positive_score == SeverityScore(signals, "POSITIVE")
        neutral_score == SeverityScore(signals, "NEUTRAL")
        severity == IF negative_score > positive_score /\ negative_score > neutral_score
                    THEN "NEGATIVE"
                    ELSE IF positive_score > negative_score /\ positive_score > neutral_score
                    THEN "POSITIVE"
                    ELSE "NEUTRAL"
        max_score == SeverityScore(signals, severity)
        Same(s) == s.severity = severity
    IN IF signals = <<>>
       THEN [treatment_type |-> "CITED", severity |-> "NEUTRAL", confidence |-> 30,
             signals |-> <<>>, text |-> text]
       ELSE [treatment_type |->
                 map_keyword_to_treatment_type(Strongest(signals).keyword, severity),
             severity |-> severity,
             confidence |-> Min(100, max_score * (10 + Len(SelectSeq(signals, Same)))),
             signals |-> signals,
             text |-> text]

classify_parenthetical(text) == ClassifySignals(find_treatment_signals(text), text)

\* number of results of a severity
SeverityCount(results, severity) ==
    Cardinality({i \in DOMAIN results : results[i].severity = severity})

\* max(s.score for s in signals, default=0)
MaxSignalScore(signals) ==
    IF signals = <<>> THEN 0 ELSE Strongest(signals).score

\* max(results, key): the first of the results with the highest key
FirstMax(results, Key(_)) ==
    results[CHOOSE i \in DOMAIN results :
                /\ \A j \in DOMAIN results : Key(results[j]) <= Key(results[i])
                /\ \A j \in 1..(i - 1) : Key(results[j]) < Key(results[i])]

\* an analyze_opinion_treatment in which the negative texts must outnumber the
\* others to decide the severity
MajoritySummary(results) ==
    LET negatives == SeverityCount(results, "NEGATIVE")
        positives == SeverityCount(results, "POSITIVE")
        neutrals == SeverityCount(results, "NEUTRAL")
    IN IF results = <<>>
       THEN [treatment_type |-> "UNKNOWN", severity |-> "UNKNOWN", confidence |-> 0,
             negative_count |-> 0, positive_count |-> 0, neutral_count |-> 0,
             total_parentheticals |-> 0, evidence |-> <<>>]
       ELSE [treatment_type |-> "CITED",
             severity |-> IF negatives > positives /\ negatives > neutrals
                          THEN "NEGATIVE"
                          ELSE IF positives > neutrals THEN "POSITIVE" ELSE "NEUTRAL",
             confidence |-> 30,
             negative_count |-> negatives,
             positive_count |-> positives,
             neutral_count |-> neutrals,
             total_parentheticals |-> Len(results),
             evidence |-> <<[negative |-> negatives, positive |-> positives,
                             neutral |-> neutrals]>>]

analyze_opinion_treatment_Majority(texts) ==
    MajoritySummary([i \in DOMAIN texts |-> classify_parenthetical(texts[i])])

\* analyze_opinion_treatment from line 399 on, given the result of every
\* parenthetical; confidence in hundredths; of the evidence, the summary counts
\* and the two score totals (significant_treatments and the example lists
\* are left out)
SummarizeResults(results) ==
    LET negatives == SeverityCount(results, "NEGATIVE")
        positives == SeverityCount(results, "POSITIVE")
        neutrals == SeverityCount(results, "NEUTRAL")
        IsNegative(r) == r.severity = "NEGATIVE"
        IsPositive(r) == r.severity = "POSITIVE"
        NegativeKey(r) == r.confidence * MaxSignalScore(r.signals)
        PositiveKey(r) == r.confidence
        Total(severity) ==
            SumSeq([i \in DOMAIN results |-> SeverityScore(results[i].signals, severity)])
        decided ==
            IF negatives > 0
            THEN [severity |-> "NEGATIVE",
                  treatment_type |->
                      FirstMax(SelectSeq(results, IsNegative), NegativeKey).treatment_type,
                  confidence |-> Min(100, 60 + negatives * 10)]
            ELSE IF positives > neutrals
            THEN [severity |-> "POSITIVE",
                  treatment_type |->
                      FirstMax(SelectSeq(results, IsPositive), PositiveKey).treatment_type,
                  confidence |-> Min(100, 40 + positives * 5)]
            ELSE [severity |-> "NEUTRAL", treatment_type |-> "CITED", confidence |-> 30]
    IN IF results = <<>>
       THEN [treatment_type |-> "UNKNOWN", severity |-> "UNKNOWN", confidence |-> 0,
             negative_count |-> 0, positive_count |-> 0, neutral_count |-> 0,
             total_parentheticals |-> 0, evidence |-> <<>>]
       ELSE [treatment_type |-> decided.treatment_type,
             severity |-> decided.severity,
             confidence |-> decided.confidence,
             negative_count |-> negatives,
             positive_count |-> positives,
             neutral_count |-> neutrals,
             total_parentheticals |-> Len(results),
             evidence |-> <<[negative |-> negatives, positive |-> positives,
                             neutral |-> neutrals,
                             total_negative_score |-> Total("NEGATIVE"),
                             total_positive_score |-> Total("POSITIVE")]>>]

\* analyze_opinion_treatment on the texts of the parentheticals
analyze_opinion_treatment(texts) ==
    SummarizeResults([i \in DOMAIN texts |-> classify_parenthetical(texts[i])])

\* the classifier was not called
NoTreatment == parentheticals = <<>> /\ classified = <<>> /\ summary = <<>>

NoRisk == citations = <<>> /\ assessment = <<>>

(***************************************************************************)
(* The frame of one request: the locals of the HTTP handler,               *)
(* analyze_citation_tree and _analyze_level, and where the worker is.      *)
(***************************************************************************)
NoResult == [status |-> 0, tree |-> <<>>]

IdleFrame ==
    [pc |-> "idle", root_opinion_id |-> 0, max_depth |-> 0, force_refresh |-> FALSE,
     tree |-> 0, depth |-> 0,
     all_citations |-> <<>>, visited |-> {}, current_level_ids |-> {},
     cache_hits |-> 0, cache_misses |-> 0,
     \* _analyze_level: ids of current_level_ids still to iterate, rest of cited_ids
     pending |-> {}, cited_ids |-> <<>>, level_citations |-> <<>>,
     next_level_ids |-> {},
     \* analysis: the oracle's dict; existing: the row save_analysis found
     analysis |-> <<>>, existing |-> 0,
     result |-> NoResult,
     \* history of this run: assessment steps, skipped nodes, first level run,
     \* calls of get_opinion_citations
     visits |-> <<>>, skipped |-> <<>>, start_depth |-> 0, graph_lookups |-> 0]

\* the state after deployment: the tables of the graph filled, the others empty
Deployed(graphs, availability, injected) ==
    /\ cites \in graphs
    /\ opinions = Ids \ {4}
    /\ available \in availability
    /\ cache = <<>>
    /\ trees = <<>>
    /\ t = [p \in Procs |-> IdleFrame]
    /\ runs = 0
    /\ faults = injected
    /\ oracleCalls = [i \in Ids |-> <<>>]
    /\ puts = [i \in Ids |-> <<>>]
    /\ written = {}

Start(graphs, availability, injected) ==
    Deployed(graphs, availability, injected) /\ NoTreatment /\ NoRisk

Init == Start(Graphs, BOOLEAN, 0)

\* get_opinion_citations: the cited ids of the rows of the citing opinion
get_opinion_citations(opinion_id) == cites[opinion_id]

\* an exception leaves analyze_citation_tree: the handler answers 500
Raised(f) == [f EXCEPT !.pc = "returned", !.result = [status |-> 500, tree |-> <<>>]]

\* the handler without the lookup of lines 44-47
api_analyze_citation_tree_NoExistenceCheck(p, opinion_id, depth, force_refresh) ==
    /\ t[p].pc = "idle"
    /\ runs' = runs + 1
    /\ LET g == [t[p] EXCEPT !.root_opinion_id = opinion_id, !.max_depth = depth,
                             !.force_refresh = force_refresh]
       IN t' = [t EXCEPT ![p] =
                  IF ~(MIN_DEPTH <= depth /\ depth <= MAX_DEPTH)
                  THEN [g EXCEPT !.pc = "returned", !.result = [status |-> 422, tree |-> <<>>]]
                  ELSE IF ~available
                  THEN [g EXCEPT !.pc = "returned", !.result = [status |-> 503, tree |-> <<>>]]
                  ELSE [g EXCEPT !.pc = "call"]]
    /\ UNCHANGED <<treatment, risk, written, cites, opinions, available, cache, trees, faults,
                   oracleCalls, puts>>

\* POST /analyze/{opinion_id}: the handler up to the call of the analyzer;
\* opinion_id, depth and force_refresh are its parameters
api_analyze_citation_tree(p, opinion_id, depth, force_refresh) ==
    /\ t[p].pc = "idle"
    /\ runs' = runs + 1
    /\ LET g == [t[p] EXCEPT !.root_opinion_id = opinion_id, !.max_depth = depth,
                             !.force_refresh = force_refresh]
       IN t' = [t EXCEPT ![p] =
                  IF ~(MIN_DEPTH <= depth /\ depth <= MAX_DEPTH)
                  THEN [g EXCEPT !.pc = "returned", !.result = [status |-> 422, tree |-> <<>>]]
                  ELSE IF opinion_id \notin opinions
                  THEN [g EXCEPT !.pc = "returned", !.result = [status |-> 404, tree |-> <<>>]]
                  ELSE IF ~available
                  THEN [g EXCEPT !.pc = "returned", !.result = [status |-> 503, tree |-> <<>>]]
                  ELSE [g EXCEPT !.pc = "call"]]
    /\ UNCHANGED <<treatment, risk, written, cites, opinions, available, cache, trees, faults,
                   oracleCalls, puts>>

\* analyze_citation_tree up to the level loop
analyze_citation_tree(p) ==
    /\ t[p].pc = "call"
    /\ LET f == t[p]
           existing_tree == get_existing_tree(trees, f.root_opinion_id, f.max_depth)
       IN IF ~(1 <= f.max_depth /\ f.max_depth <= 5)
          THEN /\ t' = [t EXCEPT ![p] =
                          [f EXCEPT !.pc = "returned",
                                    !.result = [status |-> 400, tree |-> <<>>]]]
               /\ UNCHANGED trees
          ELSE IF existing_tree # 0 /\ ~f.force_refresh /\ is_complete(trees[existing_tree])
          THEN /\ t' = [t EXCEPT ![p] =
                          [f EXCEPT !.pc = "returned",
                                    !.result = [status |-> 200,
                                                tree |-> <<trees[existing_tree]>>]]]
               /\ UNCHANGED trees
          ELSE LET resume == existing_tree # 0 /\ ~f.force_refresh
                   start_depth == IF resume THEN trees[existing_tree].current_depth + 1
                                  ELSE 1
               IN /\ trees' = IF resume THEN trees
                              ELSE Append(trees, NewTree(f.root_opinion_id, f.max_depth))
                  /\ t' = [t EXCEPT ![p] =
                             [f EXCEPT !.pc = "level",
                                       !.tree = IF resume THEN existing_tree
                                                ELSE Len(trees) + 1,
                                       !.start_depth = start_depth,
                                       !.depth = start_depth,
                                       !.all_citations = <<>>,
                                       !.visited = {f.root_opinion_id},
                                       !.current_level_ids = {f.root_opinion_id},
                                       !.cache_hits = 0,
                                       !.cache_misses = 0]]
    /\ UNCHANGED <<treatment, risk, written, cites, opinions, available, cache, runs, faults,
                   oracleCalls, puts>>

\* head of "for depth in range(start_depth, max_depth + 1)" and the early stop
LevelLoop(p) ==
    /\ t[p].pc = "level"
    /\ LET f == t[p]
       IN t' = [t EXCEPT ![p] =
                  IF f.depth > f.max_depth \/ f.current_level_ids = {}
                  THEN [f EXCEPT !.pc = "post"]
                  ELSE [f EXCEPT !.pc = "opinion",
                                 !.pending = f.current_level_ids,
                                 !.level_citations = <<>>,
                                 !.next_level_ids = {}]]
    /\ UNCHANGED <<treatment, risk, written, cites, opinions, available, cache, trees, runs, faults,
                   oracleCalls, puts>>

\* the sets left when k elements of ids are taken away: a set has no order of
\* its own, so a slice of list(ids) can leave out any k of them
RECURSIVE Without(_, _)
Without(ids, k) ==
    IF k = 0 THEN {ids} ELSE UNION {Without(ids \ {x}, k - 1) : x \in ids}

\* set(list(current_level_ids)[:MAX_CITATIONS_PER_LEVEL]): the sets the slice can give
LimitPerLevel(ids) ==
    IF Cardinality(ids) > MAX_CITATIONS_PER_LEVEL
    THEN Without(ids, Cardinality(ids) - MAX_CITATIONS_PER_LEVEL)
    ELSE {ids}

\* _analyze_level returned: lines 122-142 of analyze_citation_tree
EndLevel(p) ==
    /\ t[p].pc = "opinion"
    /\ t[p].pending = {}
    /\ LET f == t[p]
       IN \E limited \in LimitPerLevel(f.next_level_ids) :
            t' = [t EXCEPT ![p] =
                    [f EXCEPT !.pc = "level",
                              !.cache_hits = @ + CountFromCache(f.level_citations, TRUE),
                              !.cache_misses = @ + CountFromCache(f.level_citations, FALSE),
                              !.all_citations = DictPutAll(@, f.level_citations),
                              !.visited = @ \cup f.next_level_ids,
                              !.current_level_ids = limited,
                              !.depth = @ + 1]]
    /\ UNCHANGED <<treatment, risk, written, cites, opinions, available, cache, trees, runs, faults,
                   oracleCalls, puts>>

\* "for opinion_id in current_level_ids": get_opinion_citations of the next one
NextOpinion(p) ==
    /\ t[p].pc = "opinion"
    /\ \E opinion_id \in t[p].pending :
         \/ /\ t' = [t EXCEPT ![p] =
                       [@ EXCEPT !.pc = "cited",
                                 !.pending = @ \ {opinion_id},
                                 !.cited_ids = get_opinion_citations(opinion_id),
                                 !.graph_lookups = @ + 1]]
            /\ UNCHANGED faults
         \/ \* the query fails: nothing in _analyze_level catches it
            /\ faults < MaxFaults
            /\ faults' = faults + 1
            /\ t' = [t EXCEPT ![p] = [Raised(@) EXCEPT !.graph_lookups = @ + 1]]
    /\ UNCHANGED <<treatment, risk, written, cites, opinions, available, cache, trees, runs,
                   oracleCalls, puts>>

\* the frame after "continue": on to the next cited_id
Continue(f) == [f EXCEPT !.pc = "cited", !.cited_ids = Tail(@),
                         !.analysis = <<>>, !.existing = 0]

Skip(f, why) ==
    [Continue(f) EXCEPT !.skipped =
        Append(@, [opinion_id |-> Head(f.cited_ids), depth |-> f.depth, why |-> why])]

\* lines 290-291: the citation joins level_citations and next_level_ids
Record(f, citation_data) ==
    [Continue(f) EXCEPT !.level_citations = Append(@, citation_data),
                        !.next_level_ids = @ \cup {citation_data.opinion_id}]

\* a guard that lets every cited id through
in_visited_Never(cited_id, visited) == FALSE

\* the cycle guard of _analyze_level: "if cited_id in visited"
in_visited(cited_id, visited) == cited_id \in visited

\* lines 242-260: get_cached_analysis and the cached branch
CacheLookup(f, cited_id) ==
    LET cached_analysis == get_cached_analysis(cache, cited_id)
        g == [f EXCEPT !.visits = Append(@, [opinion_id |-> cited_id, depth |-> f.depth])]
    IN IF cached_analysis # 0
       THEN Record(g, CitationData(cited_id, f.depth,
                                   RowVerdict(cache[cached_analysis]), TRUE))
       ELSE [g EXCEPT !.pc = "analyze"]

\* "for cited_id in cited_ids": lines 232-260
NextCited(p) ==
    /\ t[p].pc = "cited"
    /\ LET f == t[p]
       IN \/ /\ f.cited_ids = <<>>
             /\ t' = [t EXCEPT ![p] = [f EXCEPT !.pc = "opinion"]]
             /\ UNCHANGED <<opinions, faults>>
          \/ /\ f.cited_ids # <<>>
             /\ in_visited(Head(f.cited_ids), f.visited)
             /\ t' = [t EXCEPT ![p] = Continue(f)]
             /\ UNCHANGED <<opinions, faults>>
          \/ \* ensure_opinion_exists returns the opinion (from the table or the API)
             /\ f.cited_ids # <<>>
             /\ ~in_visited(Head(f.cited_ids), f.visited)
             /\ opinions' = opinions \cup {Head(f.cited_ids)}
             /\ t' = [t EXCEPT ![p] = CacheLookup(f, Head(f.cited_ids))]
             /\ UNCHANGED faults
          \/ \* ensure_opinion_exists: not in the table, the API answers 404
             /\ f.cited_ids # <<>>
             /\ ~in_visited(Head(f.cited_ids), f.visited)
             /\ Head(f.cited_ids) \notin opinions
             /\ t' = [t EXCEPT ![p] = Skip(f, "not found")]
             /\ UNCHANGED <<opinions, faults>>
          \/ \* ensure_opinion_exists raises CourtListenerAPIError (not in the
             \* table), or the query of get_cached_analysis fails
             /\ f.cited_ids # <<>>
             /\ ~in_visited(Head(f.cited_ids), f.visited)
             /\ faults < MaxFaults
             /\ faults' = faults + 1
             /\ t' = [t EXCEPT ![p] = Raised(f)]
             /\ UNCHANGED opinions
    /\ UNCHANGED <<treatment, risk, written, cites, available, cache, trees, runs,
                   oracleCalls, puts>>

\* lines 262-270: is_available and analyze_citation_quality
Analyze(p) ==
    /\ t[p].pc = "analyze"
    /\ LET f == t[p]
           cited_id == Head(f.cited_ids)
       IN IF ~available
          THEN /\ t' = [t EXCEPT ![p] = Skip(f, "unavailable")]
               /\ UNCHANGED <<faults, oracleCalls>>
          ELSE \/ \E analysis \in Verdicts :
                    /\ oracleCalls' = [oracleCalls EXCEPT ![cited_id] = Append(@, "verdict")]
                    /\ t' = [t EXCEPT ![p] =
                               [f EXCEPT !.pc = "save", !.analysis = <<analysis>>]]
                    /\ UNCHANGED faults
               \/ \* text too short, API error, unparsable answer: returns None
                  /\ faults < MaxFaults
                  /\ faults' = faults + 1
                  /\ oracleCalls' = [oracleCalls EXCEPT ![cited_id] = Append(@, "None")]
                  /\ t' = [t EXCEPT ![p] = Skip(f, "analysis failed")]
               \/ \* get_opinion_text raises before the try block
                  /\ faults < MaxFaults
                  /\ faults' = faults + 1
                  /\ oracleCalls' = [oracleCalls EXCEPT ![cited_id] = Append(@, "raised")]
                  /\ t' = [t EXCEPT ![p] = Raised(f)]
    /\ UNCHANGED <<treatment, risk, written, cites, opinions, available, cache, trees, runs, puts>>

\* save_analysis, first half: "existing = self.get_cached_analysis(opinion_id, db)"
SaveLookup(p) ==
    /\ t[p].pc = "save"
    /\ LET f == t[p]
       IN t' = [t EXCEPT ![p] =
                  [f EXCEPT !.pc = "commit",
                            !.existing = get_cached_analysis(cache, Head(f.cited_ids))]]
    /\ UNCHANGED <<treatment, risk, written, cites, opinions, available, cache, trees, runs, faults,
                   oracleCalls, puts>>

\* a save_analysis without the update branch of lines 397-414: always a new row
save_analysis_InsertOnly(rows, existing, opinion_id, analysis) ==
    Append(rows, CacheRow(opinion_id, analysis))

\* the table after save_analysis wrote and committed
save_analysis(rows, existing, opinion_id, analysis) ==
    IF existing # 0
    THEN [rows EXCEPT ![existing] = CacheRow(opinion_id, analysis)]
    ELSE Append(rows, CacheRow(opinion_id, analysis))

\* save_analysis, second half (update or insert, commit), then lines 275-291
SaveCommit(p) ==
    /\ t[p].pc = "commit"
    /\ LET f == t[p]
           cited_id == Head(f.cited_ids)
           analysis == f.analysis[1]
           done == Record(f, CitationData(cited_id, f.depth, analysis, FALSE))
       IN /\ t' = [t EXCEPT ![p] = done]
          /\ \/ /\ f.existing # 0 \/ unique_citation_quality(cache, CacheRow(cited_id, analysis))
                /\ cache' = save_analysis(cache, f.existing, cited_id, analysis)
                /\ puts' = [puts EXCEPT ![cited_id] = Append(@, analysis)]
                /\ UNCHANGED faults
             \/ \* the insert breaks unique_citation_quality: rollback, None
                /\ f.existing = 0
                /\ ~unique_citation_quality(cache, CacheRow(cited_id, analysis))
                /\ UNCHANGED <<cache, puts, faults>>
             \/ \* the commit fails: rollback, None
                /\ faults < MaxFaults
                /\ faults' = faults + 1
                /\ UNCHANGED <<cache, puts>>
    /\ UNCHANGED <<treatment, risk, written, cites, opinions, available, trees, runs, oracleCalls>>

\* as Finish, but the re-evaluated parents are written back to the node cache
Finish_SavesReEvaluated(p) ==
    /\ t[p].pc = "post"
    /\ LET f == t[p]
           all == re_evaluate_parents(f.all_citations)
           updated == update_tree_record(
                          trees[f.tree], f.max_depth, all,
                          calculate_overall_risk(all),
                          build_tree_structure(f.root_opinion_id, all),
                          extract_high_risk_citations(all),
                          f.cache_hits, f.cache_misses, Now(trees))
           Marked(id) == \E k \in DOMAIN all : /\ all[k].opinion_id = id
                                               /\ all[k].has_high_risk_children
       IN /\ trees' = [trees EXCEPT ![f.tree] = updated]
          /\ written' = written \cup {updated}
          /\ cache' = [i \in DOMAIN cache |->
                          IF Marked(cache[i].cited_opinion_id)
                          THEN [cache[i] EXCEPT !.risk_score = RE_EVALUATION_THRESHOLD]
                          ELSE cache[i]]
          /\ t' = [t EXCEPT ![p] =
                     [f EXCEPT !.pc = "returned",
                               !.all_citations = all,
                               !.result = [status |-> 200, tree |-> <<updated>>]]]
    /\ UNCHANGED <<treatment, risk, cites, opinions, available, runs, faults,
                   oracleCalls, puts>>

\* lines 144-176: re-evaluation, risk, tree structure, _update_tree_record
Finish(p) ==
    /\ t[p].pc = "post"
    /\ LET f == t[p]
           all == re_evaluate_parents(f.all_citations)
           updated == update_tree_record(
                          trees[f.tree], f.max_depth, all,
                          calculate_overall_risk(all),
                          build_tree_structure(f.root_opinion_id, all),
                          extract_high_risk_citations(all),
                          f.cache_hits, f.cache_misses, Now(trees))
       IN /\ trees' = [trees EXCEPT ![f.tree] = updated]
          /\ written' = written \cup {updated}
          /\ t' = [t EXCEPT ![p] =
                     [f EXCEPT !.pc = "returned",
                               !.all_citations = all,
                               !.result = [status |-> 200, tree |-> <<updated>>]]]
    /\ UNCHANGED <<treatment, risk, cites, opinions, available, cache, runs, faults,
                   oracleCalls, puts>>

\* the response is sent; the worker is free again
Respond(p) ==
    /\ t[p].pc = "returned"
    /\ t' = [t EXCEPT ![p] = IdleFrame]
    /\ UNCHANGED <<treatment, risk, written, cites, opinions, available, cache, trees, runs, faults,
                   oracleCalls, puts>>

\* GET /tree/{opinion_id}: the handler get_citation_tree, depth 0 for no filter
api_get_citation_tree(p, opinion_id, depth) ==
    /\ t[p].pc = "idle"
    /\ LET tree == get_citation_tree(trees, opinion_id, depth)
       IN t' = [t EXCEPT ![p] =
                  [t[p] EXCEPT !.pc = "returned",
                               !.root_opinion_id = opinion_id,
                               !.result = IF depth # 0 /\ ~(MIN_DEPTH <= depth /\ depth <= MAX_DEPTH)
                                          THEN [status |-> 422, tree |-> <<>>]
                                          ELSE IF tree = 0
                                          THEN [status |-> 404, tree |-> <<>>]
                                          ELSE [status |-> 200, tree |-> <<trees[tree]>>]]]
    /\ UNCHANGED <<treatment, risk, written, cites, opinions, available, cache, trees,
                   runs, faults, oracleCalls, puts>>

Step(p, roots, depths, max_runs) ==
    \/ /\ runs < max_runs
       /\ \E opinion_id \in roots, depth \in depths, force_refresh \in BOOLEAN :
              api_analyze_citation_tree(p, opinion_id, depth, force_refresh)
    \/ analyze_citation_tree(p)
    \/ LevelLoop(p)
    \/ NextOpinion(p)
    \/ EndLevel(p)
    \/ NextCited(p)
    \/ Analyze(p)
    \/ SaveLookup(p)
    \/ SaveCommit(p)
    \/ Finish(p)
    \/ Respond(p)

\* requests served one at a time
Next == Step("t1", RootInputs, DepthInputs, MaxRuns)

Spec == Init /\ [][Next]_vars

\* two requests served concurrently, on the diamond, with no injected failure;
\* the roots 2 and 3 both cite opinion 4
ConcRootInputs == {2, 3}

ConcDepthInputs == {1, 2}

InitConc == Start({Diamond}, {TRUE}, MaxFaults)

NextConc == \E p \in Procs : Step(p, ConcRootInputs, ConcDepthInputs, MaxRuns)

SpecConc == InitConc /\ [][NextConc]_vars

\* one root asked again and again, one request at a time: a third request can
\* find what the first two left in citation_analysis_tree
RerunRootInputs == {2}

RerunDepthInputs == {1, 2}

NextRerun == Step("t1", RerunRootInputs, RerunDepthInputs, MaxRuns + 1)

InitRerun == Start({Diamond}, {TRUE}, 0)

SpecRerun == InitRerun /\ [][NextRerun]_vars

\* traversals of one root served concurrently with lookups of its tree: the
\* second request finds the record of the first and both write it
ReadRootInputs == {2}

ReadDepthInputs == {1, 2}

ReadFilterInputs == {0, 1, MAX_DEPTH + 1}

InitRead == Start({Diamond}, {TRUE}, MaxFaults)

NextRead ==
    \E p \in Procs :
        \/ Step(p, ReadRootInputs, ReadDepthInputs, MaxRuns)
        \/ \E opinion_id \in ReadRootInputs, depth \in ReadFilterInputs :
               api_get_citation_tree(p, opinion_id, depth)

SpecRead == InitRead /\ [][NextRead]_vars

\* requests that the handler must turn away, mixed with valid ones: a root
\* with and one without a row in search_opinion, depths below, in and above
\* the range
ValidateRootInputs == {2, 4}

ValidateDepthInputs == {MIN_DEPTH - 1, MIN_DEPTH, MAX_DEPTH + 1}

NextValidate == Step("t1", ValidateRootInputs, ValidateDepthInputs, MaxRuns + 1)

InitValidate == Start({Diamond}, BOOLEAN, 0)

SpecValidate == InitValidate /\ [][NextValidate]_vars

\* an opinion that cites one opinion more than MAX_CITATIONS_PER_LEVEL; all of
\* them are in search_opinion and all but the last have a cached verdict
WideIds == 1..(MAX_CITATIONS_PER_LEVEL + 2)

WideRootInputs == {1}

WideDepthInputs == {MIN_DEPTH}

InitWide ==
    /\ cites = [i \in WideIds |->
                  IF i = 1 THEN [j \in 1..(MAX_CITATIONS_PER_LEVEL + 1) |-> j + 1]
                  ELSE <<>>]
    /\ opinions = WideIds
    /\ available = TRUE
    /\ cache = [j \in 1..MAX_CITATIONS_PER_LEVEL |-> CacheRow(j + 1, GoodVerdict)]
    /\ trees = <<>>
    /\ t = [p \in Procs |-> IdleFrame]
    /\ runs = 0
    /\ faults = MaxFaults
    /\ oracleCalls = [i \in WideIds |-> <<>>]
    /\ puts = [i \in WideIds |-> <<>>]
    /\ written = {}
    /\ NoTreatment
    /\ NoRisk

NextWide == Step("t1", WideRootInputs, WideDepthInputs, MaxRuns)

SpecWide == InitWide /\ [][NextWide]_vars

\* an opinion that cites more opinions of high risk than the high-risk list
\* holds; all but the last have a cached verdict, with risk scores from below
\* the threshold up to 100 in an order that the two parameters of RankedRisk
\* shuffle
RankedIds == 1..(HIGH_RISK_LIMIT + 7)

RankedCited == 1..(HIGH_RISK_LIMIT + 6)

RankedStrides == {1, 3}

RankedShifts == {0, 3, 5}

RankedRisk(j, stride, shift) == 65 + 5 * ((j * stride + shift) % 8)

RankedVerdict(risk_score) == [OverruledVerdict EXCEPT !.risk_score = risk_score]

RankedRootInputs == {1}

RankedDepthInputs == {MIN_DEPTH}

InitRanked ==
    /\ cites = [i \in RankedIds |->
                  IF i = 1 THEN [j \in RankedCited |-> j + 1] ELSE <<>>]
    /\ opinions = RankedIds
    /\ available = TRUE
    /\ \E stride \in RankedStrides, shift \in RankedShifts :
           cache = [j \in 1..(HIGH_RISK_LIMIT + 5) |->
                       CacheRow(j + 1, RankedVerdict(RankedRisk(j, stride, shift)))]
    /\ trees = <<>>
    /\ t = [p \in Procs |-> IdleFrame]
    /\ runs = 0
    /\ faults = MaxFaults
    /\ oracleCalls = [i \in RankedIds |-> <<>>]
    /\ puts = [i \in RankedIds |-> <<>>]
    /\ written = {}
    /\ NoTreatment
    /\ NoRisk

NextRanked == Step("t1", RankedRootInputs, RankedDepthInputs, MaxRuns)

SpecRanked == InitRanked /\ [][NextRanked]_vars

\* classify_parenthetical called on a text of up to MaxWords words
Snippets == UNION {[1..n -> Vocabulary] : n \in 0..MaxWords}

InitClassify ==
    /\ Deployed({Diamond}, {TRUE}, 0)
    /\ parentheticals \in {<<text>> : text \in Snippets}
    /\ classified = <<>>
    /\ summary = <<>>
    /\ NoRisk

ClassifyParenthetical ==
    /\ Len(classified) < Len(parentheticals)
    /\ classified' = Append(classified,
                            classify_parenthetical(parentheticals[Len(classified) + 1]))
    /\ UNCHANGED <<risk, written, parentheticals, summary, cites, opinions, available, cache, trees,
                   t, runs, faults, oracleCalls, puts>>

NextClassify == ClassifyParenthetical

SpecClassify == InitClassify /\ [][NextClassify]_vars

\* analyze_opinion_treatment called on a list of up to MaxSnippets texts, each
\* one of a few texts of every severity
SampleTexts ==
    {<<"overruled">>, <<"declined", "to", "follow", "smith">>, <<"followed">>,
     <<"applied">>, <<"distinguished">>, <<"smith">>, <<"rejected", "followed">>}

InitTreatment ==
    /\ Deployed({Diamond}, {TRUE}, 0)
    /\ parentheticals \in UNION {[1..n -> SampleTexts] : n \in 0..MaxSnippets}
    /\ classified = <<>>
    /\ summary = <<>>
    /\ NoRisk

AnalyzeOpinionTreatment ==
    /\ summary = <<>>
    /\ summary' = <<analyze_opinion_treatment(parentheticals)>>
    /\ UNCHANGED <<risk, written, parentheticals, classified, cites, opinions, available, cache,
                   trees, t, runs, faults, oracleCalls, puts>>

NextTreatment == AnalyzeOpinionTreatment

SpecTreatment == InitTreatment /\ [][NextTreatment]_vars

\* _calculate_overall_risk called on its own, on any all_citations of up to
\* MaxCitations entries: every quality, shallow and deep, low and high risk
Qualities == {"GOOD", "QUESTIONABLE", "OVERRULED", "SUPERSEDED", "UNCERTAIN"}

RiskDepths == {1, 3}

RiskScores == {10, 100}

AnalysisInputs ==
    {[quality_assessment |-> q, confidence |-> 80, risk_score |-> r,
      is_overruled |-> q = "OVERRULED", is_questioned |-> q = "QUESTIONABLE",
      is_criticized |-> FALSE] : q \in Qualities, r \in RiskScores}

\* the all_citations of n opinions 1..n, in the order they were added
CitationInputs(n) ==
    {[i \in 1..n |-> CitationData(i, depths[i], analyses[i], FALSE)] :
        depths \in [1..n -> RiskDepths], analyses \in [1..n -> AnalysisInputs]}

InitRisk ==
    /\ Deployed({Diamond}, {TRUE}, 0)
    /\ NoTreatment
    /\ citations \in UNION {CitationInputs(n) : n \in 0..MaxCitations}
    /\ assessment = <<>>

CalculateOverallRisk ==
    /\ assessment = <<>>
    /\ assessment' = <<calculate_overall_risk(citations)>>
    /\ UNCHANGED <<citations, written, treatment, cites, opinions, available, cache, trees,
                   t, runs, faults, oracleCalls, puts>>

NextRisk == CalculateOverallRisk

\* _calculate_overall_risk called on flat sets of risky citations near the
\* top of the scale: risk scores 99, 100 and the floats 100 - 2^-43 and
\* 100 - 2^-45
EdgeQualities == {"QUESTIONABLE", "OVERRULED", "SUPERSEDED"}

EdgeDepths == {1, 2}

EdgeScores ==
    {[risk_score |-> 99, risk_frac |-> 0], [risk_score |-> 100, risk_frac |-> 0],
     [risk_score |-> 100, risk_frac |-> 43], [risk_score |-> 100, risk_frac |-> 45]}

EdgeAnalysis(q, score) ==
    [quality_assessment |-> q, confidence |-> 80, risk_score |-> score.risk_score,
     is_overruled |-> q = "OVERRULED", is_questioned |-> q = "QUESTIONABLE",
     is_criticized |-> FALSE]

EdgeCitationInputs(n) ==
    {[i \in 1..n |-> CitationData(i, depths[i], EdgeAnalysis(qs[i], scores[i]), FALSE)
                         @@ [risk_frac |-> scores[i].risk_frac]] :
        depths \in [1..n -> EdgeDepths], qs \in [1..n -> EdgeQualities],
        scores \in [1..n -> EdgeScores]}

InitRiskEdge ==
    /\ Deployed({Diamond}, {TRUE}, 0)
    /\ NoTreatment
    /\ citations \in UNION {EdgeCitationInputs(n) : n \in 0..MaxCitations}
    /\ assessment = <<>>

SpecRiskEdge == InitRiskEdge /\ [][NextRisk]_vars

SpecRisk == InitRisk /\ [][NextRisk]_vars

\* save_analysis called on its own: any opinion, any verdict, by either worker
CallSave(p, opinion_id, analysis) ==
    /\ t[p].pc = "idle"
    /\ runs' = runs + 1
    /\ t' = [t EXCEPT ![p] = [@ EXCEPT !.pc = "save", !.cited_ids = <<opinion_id>>,
                                       !.analysis = <<analysis>>]]
    /\ UNCHANGED <<treatment, risk, written, cites, opinions, available, cache, trees, faults, oracleCalls, puts>>

\* save_analysis returned to that caller
SaveReturn(p) ==
    /\ t[p].pc = "cited"
    /\ t' = [t EXCEPT ![p] = IdleFrame]
    /\ UNCHANGED <<treatment, risk, written, cites, opinions, available, cache, trees, runs, faults,
                   oracleCalls, puts>>

NextCache ==
    \E p \in Procs :
        \/ /\ runs < MaxRuns + 1
           /\ \E opinion_id \in ConcRootInputs, analysis \in Verdicts :
                  CallSave(p, opinion_id, analysis)
        \/ SaveLookup(p)
        \/ SaveCommit(p)
        \/ SaveReturn(p)

SpecCache == InitRerun /\ [][NextCache]_vars

(***************************************************************************)
(* Properties                                                              *)
(***************************************************************************)
\* the worker is inside the traversal it started (not idle, not answering
\* from a stored tree or with a rejection)
Traversing(f) == f.tree # 0

\* the traversal of the worker has ended and its answer is not yet sent
Ended(f) == f.pc = "returned" /\ Traversing(f)

\* ids the frame recorded (this level and the earlier ones)
RecordedIds(f) ==
    {f.all_citations[i].opinion_id : i \in DOMAIN f.all_citations}
    \cup {f.level_citations[i].opinion_id : i \in DOMAIN f.level_citations}

\* C1: in one traversal run every opinion id goes through the per-node
\* assessment step (cache lookup, oracle call on a miss) at most once, also
\* when two nodes of the same level cite it.
\* Stated for the runs in which nothing failed.
C1_AssessedAtMostOncePerRun ==
    faults = 0 => \A p \in Procs : \A id \in Ids : CountId(t[p].visits, id) <= 1

\* C2: over any sequence of sequential runs the oracle is invoked at most
\* once per opinion id, whatever the oracle call and the cache save return.
\* Stated for the calls that follow a call which returned a verdict: there
\* are none, every later visit is served by the cache.
C2_OracleAtMostOncePerOpinion ==
    \A id \in Ids : \A i \in DOMAIN oracleCalls[id] :
        oracleCalls[id][i] = "verdict" => i = Len(oracleCalls[id])

\* trees of the root that were completed for a smaller depth than the
\* worker's request
SmallerCompleted(f) ==
    {i \in DOMAIN trees : /\ trees[i].root_opinion_id = f.root_opinion_id
                          /\ trees[i].status = "completed"
                          /\ trees[i].max_depth < f.max_depth}

\* C3: a run for a root that has a tree completed at a smaller depth, without
\* force refresh, starts its level loop one level below that tree's
\* current depth, not at level 1.
C3_ResumesBelowCompletedDepth ==
    \A p \in Procs :
        (Traversing(t[p]) /\ ~t[p].force_refresh) =>
            \A i \in SmallerCompleted(t[p]) :
                t[p].start_depth = trees[i].current_depth + 1

\* the deepest level of the run that recorded a node (0 if none did)
LastNonEmptyLevel(f) ==
    IF f.all_citations = <<>> THEN 0
    ELSE CHOOSE d \in {f.all_citations[i].depth : i \in DOMAIN f.all_citations} :
             \A i \in DOMAIN f.all_citations : f.all_citations[i].depth <= d

\* the level loop was left by "break": current_level_ids was empty
StoppedEarly(f) == f.depth <= f.max_depth

\* C4: when a traversal stops early because a level yields no nodes, the
\* current_depth persisted in the tree record is the last level that yielded
\* a node, not the requested max_depth.
C4_EarlyStopDepthPersisted ==
    \A p \in Procs :
        (Ended(t[p]) /\ t[p].result.status = 200 /\ StoppedEarly(t[p])) =>
            trees[t[p].tree].current_depth = LastNonEmptyLevel(t[p])

\* C5: on every graph (cycles, self-citations) a run goes through at most
\* max_depth levels, never assesses its root, and visits no node at two
\* different levels.
C5_NoRevisitAcrossLevels ==
    \A p \in Procs :
        LET f == t[p]
        IN /\ Traversing(f) => f.depth <= f.max_depth + 1
           /\ \A i \in DOMAIN f.visits :
                 /\ f.visits[i].opinion_id # f.root_opinion_id
                 /\ \A j \in DOMAIN f.visits :
                       f.visits[i].opinion_id = f.visits[j].opinion_id
                           => f.visits[i].depth = f.visits[j].depth

\* trees of the root and depth of the worker's request that are completed
CompletedFor(f) ==
    {i \in DOMAIN trees : /\ trees[i].root_opinion_id = f.root_opinion_id
                          /\ trees[i].max_depth = f.max_depth
                          /\ trees[i].status = "completed"}

\* C6: when a completed tree for exactly (root, max_depth) exists and
\* force_refresh is not set, analyze_citation_tree returns that tree and
\* changes nothing: the call ends there (no graph lookup, no oracle call),
\* the node cache and every tree record are as before.
C6_CompletedTreeReturnedUnchanged ==
    [][\A p \in Procs :
          (/\ t[p].pc = "call"
           /\ t'[p].pc # "call"
           /\ ~t[p].force_refresh
           /\ CompletedFor(t[p]) # {})
          => /\ t'[p].pc = "returned"
             /\ t'[p].result.status = 200
             /\ \E i \in CompletedFor(t[p]) : t'[p].result.tree = <<trees[i]>>
             /\ t'[p].graph_lookups = 0
             /\ UNCHANGED <<cache, trees, oracleCalls, puts>>]_vars

\* C7: two traversals from different roots that reach the same uncached
\* opinion invoke the oracle for it at most once, under every interleaving
\* (the get-then-put of the cache is atomic per key).
C7_OracleAtMostOnceConcurrently ==
    \A id \in Ids : Len(oracleCalls[id]) <= 1

\* C8: after any sequence of save_analysis calls the cache holds at most one
\* row per (opinion id, version), and get_cached_analysis returns the verdict
\* of the latest committed save.
C8_LaterPutSupersedes ==
    \A id \in Ids :
        /\ Cardinality(CachedRows(cache, id)) <= 1
        /\ puts[id] = <<>> <=> get_cached_analysis(cache, id) = 0
        /\ puts[id] # <<>> =>
               RowVerdict(cache[get_cached_analysis(cache, id)])
                   = puts[id][Len(puts[id])]

\* a second save replaced the verdict of the first in the one row of the opinion
C8_Witness ==
    \E id \in Ids :
        /\ Len(puts[id]) >= 2
        /\ puts[id][1] # puts[id][Len(puts[id])]
        /\ Cardinality(CachedRows(cache, id)) = 1
        /\ RowVerdict(cache[get_cached_analysis(cache, id)]) = puts[id][Len(puts[id])]

\* ids in the tree_data of a tree record
TreeIds(tree) ==
    UNION {{tree.tree_data.citations_by_depth[d][i].opinion_id :
               i \in DOMAIN tree.tree_data.citations_by_depth[d]} :
           d \in DOMAIN tree.tree_data.citations_by_depth}

\* C9: when the graph lookup, the opinion fetch, the cache access or the
\* oracle call fails for one node, the node is skipped and the traversal
\* goes on: every run that started ends with its tree record completed and
\* holding every node that was assessed successfully.
C9_RunFinishesDespiteNodeFailure ==
    \A p \in Procs :
        Ended(t[p]) =>
            /\ t[p].result.status = 200
            /\ trees[t[p].tree].status = "completed"
            /\ RecordedIds(t[p]) \subseteq TreeIds(trees[t[p].tree])

\* the oracle was asked about nodes at level d of the run and every one of
\* them failed
LevelFailed(f, d) ==
    /\ \E i \in DOMAIN f.visits : f.visits[i].depth = d
    /\ \A i \in DOMAIN f.visits :
          f.visits[i].depth = d =>
              \E j \in DOMAIN f.skipped :
                  /\ f.skipped[j].depth = d
                  /\ f.skipped[j].opinion_id = f.visits[i].opinion_id
                  /\ f.skipped[j].why = "analysis failed"

\* C10: a traversal in which too many nodes of a level fail (here: all of
\* them) ends with the tree record failed, an error message persisted and
\* current_depth at the last level completed before.
C10_FailedLevelMarksTreeFailed ==
    \A p \in Procs : \A d \in MIN_DEPTH..MAX_DEPTH :
        (Ended(t[p]) /\ LevelFailed(t[p], d)) =>
            /\ trees[t[p].tree].status = "failed"
            /\ trees[t[p].tree].error_message # "null"
            /\ trees[t[p].tree].current_depth < d

\* citations of the run that the oracle assessed (not served by the cache)
FromOracle(f) ==
    {i \in DOMAIN f.all_citations : ~f.all_citations[i].from_cache}

\* the run asked the oracle and the oracle answered for none of the nodes
OracleUnreachable(f) ==
    /\ Traversing(f)
    /\ FromOracle(f) = {}
    /\ \E j \in DOMAIN f.skipped : f.skipped[j].why = "analysis failed"
    /\ \A i \in DOMAIN f.visits :
          \/ \E j \in DOMAIN f.skipped :
                 /\ f.skipped[j].opinion_id = f.visits[i].opinion_id
                 /\ f.skipped[j].why = "analysis failed"
          \/ \E k \in DOMAIN f.all_citations :
                 /\ f.all_citations[k].opinion_id = f.visits[i].opinion_id
                 /\ f.all_citations[k].from_cache

\* C11: a request for which the oracle is unavailable (no client) or
\* unreachable for every node it is asked about is answered "service
\* unavailable" (503), not with a result, and its tree record is not
\* persisted as completed.
C11_UnreachableOracleReported ==
    \A p \in Procs :
        (/\ t[p].pc = "returned"
         /\ t[p].result.status \notin {404, 422}
         /\ ~available \/ OracleUnreachable(t[p]))
        => /\ t[p].result.status = 503
           /\ Traversing(t[p]) => trees[t[p].tree].status # "completed"

\* the request in the frame has a depth outside the range or names a root
\* without a row in search_opinion
Rejectable(f) ==
    \/ ~(MIN_DEPTH <= f.max_depth /\ f.max_depth <= MAX_DEPTH)
    \/ f.root_opinion_id \notin opinions

\* C12: a request whose depth is outside 1..5 or whose root opinion does not
\* exist is rejected in the step that receives it: the worker is left with
\* the rejection to send, no tree record is created, the node cache and the
\* opinions are unchanged, the graph store and the oracle are not called.
C12_InvalidRequestRejectedFirst ==
    [][\A p \in Procs :
          (t[p].pc = "idle" /\ t'[p].pc # "idle" /\ Rejectable(t'[p]))
          => /\ t'[p].pc = "returned"
             /\ t'[p].result.status \in {404, 422}
             /\ t'[p].result.tree = <<>>
             /\ t'[p].tree = 0
             /\ t'[p].graph_lookups = 0
             /\ t'[p].visits = <<>>
             /\ UNCHANGED <<trees, cache, opinions, oracleCalls, puts>>]_vars

\* a request for a root that does not exist was turned away with 404 while
\* the tree of an earlier request is stored
C12_Witness ==
    \E p \in Procs :
        /\ t[p].pc = "returned"
        /\ t[p].result.status = 404
        /\ t[p].root_opinion_id \notin opinions
        /\ t[p].max_depth \in MIN_DEPTH..MAX_DEPTH
        /\ t[p].tree = 0
        /\ trees # <<>>

\* number of citations the run has put at level d of its flat record
AtLevel(f, d) ==
    Cardinality({i \in DOMAIN f.all_citations : f.all_citations[i].depth = d})

\* C13: in every run and at every level, the number of citations assessed
\* and added to the flat record at that level is at most
\* MAX_CITATIONS_PER_LEVEL.
C13_LevelCapped ==
    \A p \in Procs : \A d \in MIN_DEPTH..MAX_DEPTH :
        AtLevel(t[p], d) <= MAX_CITATIONS_PER_LEVEL

\* the severity with the highest summed score, ties going to NEGATIVE, then
\* POSITIVE, then NEUTRAL
HighestSeverity(signals) ==
    LET negative_score == SeverityScore(signals, "NEGATIVE")
        positive_score == SeverityScore(signals, "POSITIVE")
        neutral_score == SeverityScore(signals, "NEUTRAL")
    IN IF negative_score >= positive_score /\ negative_score >= neutral_score
       THEN "NEGATIVE"
       ELSE IF positive_score >= neutral_score THEN "POSITIVE" ELSE "NEUTRAL"

\* C14: classify_parenthetical gives a text with signals the severity whose
\* summed signal score is highest; when totals tie, NEGATIVE wins over
\* POSITIVE and NEUTRAL, and POSITIVE wins over NEUTRAL.
C14_TiesTowardNegative ==
    \A i \in DOMAIN classified :
        classified[i].signals # <<>> =>
            classified[i].severity = HighestSeverity(classified[i].signals)

\* the matches of the negation patterns in a normalized text, as spans of
\* character positions with the matched words
NegationSpans(text) ==
    UNION {{[start |-> MatchStart(text, finditer(text, NEGATION_PATTERNS[p], 1)[k]),
             stop |-> MatchStop(text, NEGATION_PATTERNS[p],
                                finditer(text, NEGATION_PATTERNS[p], 1)[k]),
             group |-> MatchGroup(text, NEGATION_PATTERNS[p],
                                  finditer(text, NEGATION_PATTERNS[p], 1)[k])] :
            k \in DOMAIN finditer(text, NEGATION_PATTERNS[p], 1)} :
           p \in DOMAIN NEGATION_PATTERNS}

\* the signal comes from a keyword of the dictionary
FromKeywords(signal, keywords) ==
    \E e \in DOMAIN keywords : keywords[e].words = signal.keyword

IsKeywordSignal(signal) ==
    \/ FromKeywords(signal, NEGATIVE_KEYWORDS)
    \/ FromKeywords(signal, POSITIVE_KEYWORDS)
    \/ FromKeywords(signal, NEUTRAL_KEYWORDS)

\* C15: in every text, each match of a negation pattern gives a NEGATIVE
\* signal at its position, and no keyword that lies inside the matched span
\* gives a signal; a text whose only signals are negation phrases has
\* severity NEGATIVE, and a text whose only signals are positive keywords
\* (the keyword without the negation) has severity POSITIVE.
C15_NegationOverridesKeyword ==
    \A i \in DOMAIN classified :
        LET r == classified[i]
            spans == NegationSpans(normalize_text(r.text))
        IN /\ \A m \in spans :
                  \E k \in DOMAIN r.signals :
                      /\ r.signals[k].severity = "NEGATIVE"
                      /\ r.signals[k].position = m.start
                      /\ r.signals[k].keyword = m.group
                      /\ r.signals[k].score > 0
           /\ \A k \in DOMAIN r.signals :
                  IsKeywordSignal(r.signals[k]) =>
                      ~\E m \in spans :
                          /\ m.start <= r.signals[k].position
                          /\ r.signals[k].position + TextLen(r.signals[k].keyword) <= m.stop
           /\ (/\ r.signals # <<>>
               /\ \A k \in DOMAIN r.signals : ~IsKeywordSignal(r.signals[k]))
              => r.severity = "NEGATIVE"
           /\ (/\ r.signals # <<>>
               /\ \A k \in DOMAIN r.signals :
                      FromKeywords(r.signals[k], POSITIVE_KEYWORDS))
              => r.severity = "POSITIVE"

\* "not followed smith" was classified: the one signal is the negation
\* phrase, the keyword "followed" inside it gave none, the severity is NEGATIVE
C15_Witness ==
    \E i \in DOMAIN classified :
        /\ classified[i].text = <<"not", "followed", "smith">>
        /\ Len(classified[i].signals) = 1
        /\ classified[i].signals[1].keyword = <<"not", "followed">>
        /\ classified[i].severity = "NEGATIVE"

\* number of texts of the list that classify_parenthetical gives a severity
Classified(texts, severity) ==
    Cardinality({i \in DOMAIN texts : classify_parenthetical(texts[i]).severity = severity})

\* C16: analyze_opinion_treatment gives an empty list UNKNOWN (type UNKNOWN,
\* confidence 0.0, all counts zero, no evidence); otherwise NEGATIVE if some
\* text is classified NEGATIVE, whatever the number of positive or neutral
\* texts; otherwise POSITIVE if the positive count is greater than the
\* neutral count; otherwise NEUTRAL.
C16_OverallSeverity ==
    \A i \in DOMAIN summary :
        LET s == summary[i]
            negatives == Classified(parentheticals, "NEGATIVE")
            positives == Classified(parentheticals, "POSITIVE")
            neutrals == Classified(parentheticals, "NEUTRAL")
        IN /\ s.negative_count = negatives
           /\ s.positive_count = positives
           /\ s.neutral_count = neutrals
           /\ s.total_parentheticals = Len(parentheticals)
           /\ IF parentheticals = <<>>
              THEN /\ s.severity = "UNKNOWN"
                   /\ s.treatment_type = "UNKNOWN"
                   /\ s.confidence = 0
                   /\ negatives + positives + neutrals = 0
                   /\ s.evidence = <<>>
              ELSE /\ s.evidence # <<>>
                   /\ s.severity = IF negatives > 0 THEN "NEGATIVE"
                                   ELSE IF positives > neutrals THEN "POSITIVE"
                                   ELSE "NEUTRAL"

\* one negative text among two positive ones decided the summary
C16_Witness ==
    \E i \in DOMAIN summary :
        /\ summary[i].severity = "NEGATIVE"
        /\ summary[i].negative_count = 1
        /\ summary[i].positive_count = 2

(***************************************************************************)
(* Overall risk of a tree                                                  *)
(***************************************************************************)
\* sum of risk_score / max(depth, 1) over the entries, times 60
RECURSIVE StatedDepthSum60(_)
StatedDepthSum60(all) ==
    IF all = <<>> THEN 0
    ELSE LET c == Head(all)
             d == IF c.depth > 1 THEN c.depth ELSE 1
         IN (60 * c.risk_score) \div d + StatedDepthSum60(Tail(all))

\* 0.5 * negative_pct + 0.3 * questionable_pct + 0.2 * depth_weighted_avg as
\* the fraction StatedNum / StatedDen, capped at 100
StatedDen(all) == 600 * Len(all)

StatedNum(all) ==
    LET negative == {i \in DOMAIN all :
                        all[i].quality_assessment \in {"OVERRULED", "SUPERSEDED"}}
        questionable == {i \in DOMAIN all : all[i].quality_assessment = "QUESTIONABLE"}
        sum == 30000 * Cardinality(negative) + 18000 * Cardinality(questionable)
               + 2 * StatedDepthSum60(all)
    IN IF sum > 100 * StatedDen(all) THEN 100 * StatedDen(all) ELSE sum

StatedLevel(all) ==
    IF StatedNum(all) < 40 * StatedDen(all) THEN "LOW"
    ELSE IF StatedNum(all) < 70 * StatedDen(all) THEN "MEDIUM" ELSE "HIGH"

Assessed == assessment # <<>> /\ citations # <<>>

\* LOW below 40, MEDIUM from 40 to below 70, HIGH from 70, of a score in hundredths
LevelOfScore(score) ==
    IF score < 4000 THEN "LOW" ELSE IF score < 7000 THEN "MEDIUM" ELSE "HIGH"

\* C17: for a non-empty all_citations the score returned is min(100, 0.5 *
\* negative_pct + 0.3 * questionable_pct + 0.2 * depth_weighted_avg), to the two
\* decimals it is returned with, and the level returned is LOW for a score below
\* 40, MEDIUM from 40 to below 70 and HIGH from 70
C17_OverallRisk ==
    Assessed =>
        LET off == assessment[1].score * StatedDen(citations)
                   - 100 * StatedNum(citations)
        IN /\ 2 * off <= StatedDen(citations)
           /\ 2 * off >= 0 - StatedDen(citations)
           /\ assessment[1].level = StatedLevel(citations)
           /\ assessment[1].level = LevelOfScore(assessment[1].score)

(***************************************************************************)
(* Re-evaluation and the node cache                                        *)
(***************************************************************************)
\* worker p takes the step of lines 144-176: re-evaluation pass, aggregation,
\* tree structure and tree update
PostAnalysis(p) == t[p].pc = "post" /\ t'[p].pc = "returned"

\* C18: the re-evaluation pass and the aggregation of a tree leave every row of
\* the node cache as it was: category, risk score, confidence and flags of
\* every opinion are the same after the step as before it
C18_ReEvaluationKeepsVerdicts ==
    [][\A p \in Procs : PostAnalysis(p) => cache' = cache]_vars

\* a finished run whose tree has a high-risk deep node, and a depth-1 or
\* depth-2 node it marked that has a verdict in the node cache
C18_Witness ==
    \E p \in Procs :
        /\ t[p].pc = "returned"
        /\ t[p].result.status = 200
        /\ \E k \in DOMAIN t[p].all_citations :
               /\ t[p].all_citations[k].has_high_risk_children
               /\ get_cached_analysis(cache, t[p].all_citations[k].opinion_id) # 0

\* the entry of a stored tree carries the annotation of _re_evaluate_parents
Annotated(entry) ==
    /\ "has_high_risk_children" \in DOMAIN entry
    /\ entry.has_high_risk_children

\* the stored tree has a node at depth 3 or more of risk 70 or more
HasHighRiskDeep(tree_data) ==
    \E d \in DOMAIN tree_data.citations_by_depth :
        /\ d >= 3
        /\ \E k \in DOMAIN tree_data.citations_by_depth[d] :
               tree_data.citations_by_depth[d][k].risk_score >= RE_EVALUATION_THRESHOLD

\* C19: in the tree a traversal produced, every node of depth 1 or 2 carries
\* the "has high-risk descendant" annotation exactly when the tree has a node
\* at depth 3 or more whose risk score is at least 70
C19_ParentsAnnotated ==
    \A i \in DOMAIN trees :
        trees[i].status = "completed" =>
            \A d \in DOMAIN trees[i].tree_data.citations_by_depth :
                d <= 2 =>
                    \A k \in DOMAIN trees[i].tree_data.citations_by_depth[d] :
                        Annotated(trees[i].tree_data.citations_by_depth[d][k])
                            <=> HasHighRiskDeep(trees[i].tree_data)

(***************************************************************************)
(* Readers of the tree store                                               *)
(***************************************************************************)
\* the trees handed to a caller: by the lookup or by analyze_citation_tree
Returned ==
    {t[p].result.tree[1] : p \in {q \in Procs : /\ t[q].pc = "returned"
                                                 /\ t[q].result.status = 200}}

\* C20: every tree a reader is given, by the tree lookup or by
\* analyze_citation_tree, under any interleaving with running traversals, has
\* status completed, and its counts, risk assessment, tree data and current
\* depth are those one finished run wrote together
C20_NoHalfWrittenTree ==
    \A tree \in Returned : tree.status = "completed" /\ tree \in written

\* a lookup answered while a traversal is running on the record it returns:
\* the record was completed by one run and another run is still to write it
C20_Witness ==
    \E p, q \in Procs :
        /\ t[p].pc = "returned"
        /\ t[p].result.status = 200
        /\ t[p].max_depth = 0
        /\ t[q].pc \in {"level", "opinion", "cited", "analyze", "save", "commit", "post"}
        /\ t[p].result.tree[1] = trees[t[q].tree]

(***************************************************************************)
(* Tree records                                                            *)
(***************************************************************************)
\* the depths a caller can ask an extension to: in and around the valid range
NewDepths == (MIN_DEPTH - 1)..(MAX_DEPTH + 1)

TotalScore(signals) == SumSeq([i \in DOMAIN signals |-> signals[i].score])

\* C22: the signals of "expressly overruled" add up to strictly more than those
\* of "overruled" alone, and the signals of "arguably questioned" to strictly
\* less than those of "questioned" alone
C22_ModifiersShiftScore ==
    \A k \in DOMAIN classified :
        /\ classified[k].text = <<"expressly", "overruled">> =>
               TotalScore(classified[k].signals)
                   > TotalScore(classify_parenthetical(<<"overruled">>).signals)
        /\ classified[k].text = <<"arguably", "questioned">> =>
               TotalScore(classified[k].signals)
                   < TotalScore(classify_parenthetical(<<"questioned">>).signals)

\* "arguably questioned" was classified, and "questioned" has a signal
C22_Witness ==
    /\ classified # <<>>
    /\ classified[1].text = <<"arguably", "questioned">>
    /\ classified[1].signals # <<>>
    /\ TotalScore(classify_parenthetical(<<"questioned">>).signals) > 0

\* the multipliers of the modifier words in the context window of a position
PresentModifiers(text, position) ==
    {CONTEXT_MODIFIERS[i].mult :
        i \in {j \in DOMAIN CONTEXT_MODIFIERS :
                  InContext(text, CONTEXT_MODIFIERS[j].word, position)}}

\* the most extreme of a set of multipliers, in tenths: 1.0 for none, else the
\* largest intensifier or the smallest weakener, whichever is furthest from 1.0
\* (either of them when they are as far)
MostExtreme(mults) ==
    LET up == {m \in mults : m > 10}
        down == {m \in mults : m < 10}
        hi == CHOOSE m \in up : \A n \in up : n <= m
        lo == CHOOSE m \in down : \A n \in down : m <= n
    IN IF up = {} /\ down = {} THEN {10}
       ELSE IF down = {} THEN {hi}
       ELSE IF up = {} THEN {lo}
       ELSE IF hi - 10 > 10 - lo THEN {hi}
       ELSE IF hi - 10 < 10 - lo THEN {lo}
       ELSE {hi, lo}

\* C23: at every match, get_context_modifier returns 1.0 when no modifier word
\* is in the context window, and otherwise the most extreme multiplier present:
\* the largest intensifier, the smallest weakener, and of the two the one
\* furthest from 1.0
C23_MostExtremeModifier ==
    \A k \in DOMAIN classified :
        \A i \in DOMAIN classified[k].signals :
            LET text == normalize_text(classified[k].text)
                position == classified[k].signals[i].position
            IN get_context_modifier(text, position)
                   \in MostExtreme(PresentModifiers(text, position))

\* the signals of one severity
Bucket(signals, severity) ==
    LET Is(s) == s.severity = severity
    IN SelectSeq(signals, Is)

TreeNodes(tree) ==
    UNION {Range(tree.tree_data.citations_by_depth[d]) :
               d \in DOMAIN tree.tree_data.citations_by_depth}

\* C25: the high-risk list of a tree record has at most 20 entries, its risk
\* scores do not increase along the list, and no node that is left out has a
\* risk score strictly greater than that of a node in the list
C25_HighRiskList ==
    \A tree \in written :
        LET list == tree.high_risk_citations
            Listed(node) == \E i \in DOMAIN list : list[i].opinion_id = node.opinion_id
        IN /\ Len(list) <= 20
           /\ \A i, j \in DOMAIN list : i < j => list[i].risk_score >= list[j].risk_score
           /\ \A node \in TreeNodes(tree) :
                  ~Listed(node) =>
                      \A i \in DOMAIN list : node.risk_score <= list[i].risk_score

\* a record whose list is full, holds different scores, and leaves out a node
\* at or above the threshold
C25_Witness ==
    \E tree \in written :
        /\ Len(tree.high_risk_citations) = 20
        /\ tree.high_risk_citations[1].risk_score > tree.high_risk_citations[20].risk_score
        /\ \E node \in TreeNodes(tree) :
               /\ node.risk_score >= HIGH_RISK_THRESHOLD
               /\ \A i \in DOMAIN tree.high_risk_citations :
                      tree.high_risk_citations[i].opinion_id # node.opinion_id

\* C26: a request with force_refresh is not answered with an existing tree:
\* its traversal runs from level 1, and every citation it records has
\* from_cache false
C26_ForceRefreshBypassesCaches ==
    \A p \in Procs :
        LET f == t[p]
        IN /\ f.force_refresh
           /\ f.pc \notin {"idle", "call"}
           /\ ~(f.pc = "returned" /\ f.result.status # 200)
           => /\ f.start_depth = 1
              /\ \A k \in DOMAIN f.all_citations : ~f.all_citations[k].from_cache

\* the opinions within k citation edges of the root
RECURSIVE Within(_, _)
Within(root, k) ==
    IF k = 0 THEN {root}
    ELSE LET near == Within(root, k - 1)
         IN near \cup UNION {Range(cites[i]) : i \in near}

\* the length of the shortest citation path from the root to a reachable opinion
Distance(root, id) ==
    CHOOSE k \in 0..MaxId : /\ id \in Within(root, k)
                            /\ k = 0 \/ id \notin Within(root, k - 1)

\* a run from level 1 has returned its tree and has skipped no node
RanWhole(f) ==
    /\ f.pc = "returned"
    /\ f.result.status = 200
    /\ f.start_depth = 1
    /\ f.skipped = <<>>

\* C27: a run that starts at level 1, skips no node and cuts no level records
\* exactly the opinions other than the root that are within max_depth citation
\* edges of the root, each once and with its shortest-path distance as depth
C27_BreadthFirstDepths ==
    \A p \in Procs :
        LET f == t[p]
            all == f.all_citations
        IN RanWhole(f) =>
              /\ {<<all[k].opinion_id, all[k].depth>> : k \in DOMAIN all}
                     = {<<id, Distance(f.root_opinion_id, id)>> :
                            id \in Within(f.root_opinion_id, f.max_depth)
                                       \ {f.root_opinion_id}}
              /\ \A j, k \in DOMAIN all : all[j].opinion_id = all[k].opinion_id => j = k

\* a whole run over a graph with a cycle that has recorded an opinion at depth 3
C27_Witness ==
    \E p \in Procs :
        /\ RanWhole(t[p])
        /\ cites = CycleChain
        /\ \E k \in DOMAIN t[p].all_citations : t[p].all_citations[k].depth = 3

\* C28: in every completed tree record cache_hits + cache_misses equals
\* total_citations_analyzed, which is the number of distinct opinion ids of its
\* citations, and the five quality counts add up to total_citations_analyzed
C28_CountsAgree ==
    \A tree \in written :
        tree.status = "completed" =>
            /\ tree.cache_hits + tree.cache_misses = tree.total_citations_analyzed
            /\ tree.total_citations_analyzed
                   = Cardinality({node.opinion_id : node \in TreeNodes(tree)})
            /\ tree.good_count + tree.questionable_count + tree.overruled_count
                   + tree.superseded_count + tree.uncertain_count
                   = tree.total_citations_analyzed

\* the treatment types of a severity
TypesOfSeverity(severity) ==
    IF severity = "NEGATIVE"
    THEN {"OVERRULED", "REVERSED", "VACATED", "ABROGATED", "SUPERSEDED", "QUESTIONED",
          "CRITICIZED"}
    ELSE IF severity = "POSITIVE" THEN {"AFFIRMED", "FOLLOWED"}
    ELSE IF severity = "NEUTRAL" THEN {"DISTINGUISHED", "CITED"}
    ELSE {}

\* C29: the treatment type of a classified text is one of the types of its
\* severity; in particular a text that is NEGATIVE through a negation phrase is
\* never typed FOLLOWED
C29_TypeMatchesSeverity ==
    \A k \in DOMAIN classified :
        classified[k].treatment_type \in TypesOfSeverity(classified[k].severity)

\* x <= n for a natural n
FloatLE(x, n) ==
    BigCmp(BigShl(x.m, x.e - Min(x.e, 0)),
           BigShl(BigFromInt(n), 0 - Min(x.e, 0))) <= 0

\* every citation is OVERRULED or SUPERSEDED at depth 1 with risk score 100
AllWorst(all) ==
    \A i \in DOMAIN all :
        /\ all[i].quality_assessment \in {"OVERRULED", "SUPERSEDED"}
        /\ all[i].depth = 1
        /\ all[i].risk_score = 100 /\ RiskFrac(all[i]) = 0

\* the overall score before min(.., 100) is at most 70
AtMost70 ==
    assessment # <<>> /\ citations # <<>> =>
        /\ FloatLE(CombinedRisk(citations), 70)
        /\ assessment[1].score <= 7000

====
